---- MODULE Spec2Model ----
(***************************************************************************)
(* The outreach pipeline of src/agents: discovery, enrichment, scoring and *)
(* drafting over a shared record store, with the helper algorithms the     *)
(* stages call (identity matching, staleness and due filters).             *)
(*                                                                         *)
(* Strings are sequences of one-character strings, so that lower(),        *)
(* strip(), split() and startswith() are computed as Python computes them. *)
(* Stage processes run one at a time (the control server's single slot);   *)
(* a process is a snapshot query followed by one step per entity.          *)
(***************************************************************************)
EXTENDS Integers, Sequences, FiniteSets, TLC

VARIABLES
    people,          \* table people: sequence of rows, id = position
    outreach,        \* table outreach: sequence of rows
    sources,         \* table sources: sequence of rows, id = position
    enrichment_log,  \* table enrichment_log: sequence of rows
    now,             \* wall clock
    proc,            \* the running stage process, or Idle
    call,            \* one call of a helper: its inputs and its result
    server           \* the control server: its job slot, children and threads

storeVars == <<people, outreach, sources, enrichment_log>>
vars == <<people, outreach, sources, enrichment_log, now, proc, call, server>>

\* Optional values: None is the empty sequence, a value v is <<v>>.
None == <<>>
Some(v) == <<v>>

\* ------------------------------------------------------------------------
\* Python string operations (str.lower, str.strip, str.startswith,
\* str.split(None, 1), `in`)
\* ------------------------------------------------------------------------

UpperCase ==
    <<"A", "B", "C", "D", "E", "F", "G", "H", "I", "J", "K", "L", "M",
      "N", "O", "P", "Q", "R", "S", "T", "U", "V", "W", "X", "Y", "Z">>
LowerCase ==
    <<"a", "b", "c", "d", "e", "f", "g", "h", "i", "j", "k", "l", "m",
      "n", "o", "p", "q", "r", "s", "t", "u", "v", "w", "x", "y", "z">>

LowerChar(c) ==
    IF \E i \in DOMAIN UpperCase : UpperCase[i] = c
    THEN LowerCase[CHOOSE i \in DOMAIN UpperCase : UpperCase[i] = c]
    ELSE c

Lower(s) == [i \in DOMAIN s |-> LowerChar(s[i])]

\* The line feed and the double quote; the backquote is written as another
\* character, the string syntax having none.
NL == "\n"
QUOTE == "\""
BACKTICK == "^"

IsSpace(c) == c \in {" ", NL}

RECURSIVE LStrip(_)
LStrip(s) == IF s # <<>> /\ IsSpace(Head(s)) THEN LStrip(Tail(s)) ELSE s

RECURSIVE RStrip(_)
RStrip(s) ==
    IF s # <<>> /\ IsSpace(s[Len(s)]) THEN RStrip(SubSeq(s, 1, Len(s) - 1)) ELSE s

Strip(s) == RStrip(LStrip(s))

Prefix(s, n) == SubSeq(s, 1, IF Len(s) < n THEN Len(s) ELSE n)

StartsWith(s, p) == Len(p) <= Len(s) /\ SubSeq(s, 1, Len(p)) = p

Contains(s, m) ==
    \E i \in 1..(Len(s) - Len(m) + 1) : SubSeq(s, i, i + Len(m) - 1) = m

\* Length of the leading run of non-space characters of s.
RECURSIVE WordLen(_)
WordLen(s) == IF s = <<>> \/ IsSpace(Head(s)) THEN 0 ELSE 1 + WordLen(Tail(s))

\* name.split(None, 1): at most two parts; the second keeps its trailing
\* whitespace.
SplitName(name) ==
    LET t == LStrip(name)
        w == WordLen(t)
        rest == LStrip(SubSeq(t, w + 1, Len(t)))
    IN  IF t = <<>> THEN <<>>
        ELSE IF rest = <<>> THEN <<SubSeq(t, 1, w)>>
        ELSE <<SubSeq(t, 1, w), rest>>

\* ------------------------------------------------------------------------
\* enrich.py: find_linkedin_match
\* ------------------------------------------------------------------------

PREFIX_LEN == 3

\* A bug a maintainer could introduce: the prefix taken over letters only.
RECURSIVE LettersOnly(_)
LettersOnly(s) ==
    IF s = <<>> THEN <<>>
    ELSE IF Head(s) \in {"'", "-", " "} THEN LettersOnly(Tail(s))
    ELSE <<Head(s)>> \o LettersOnly(Tail(s))

LastPrefixLettersOnly(last_lower) == Prefix(LettersOnly(last_lower), PREFIX_LEN)

\* last_prefix = last_lower[:3]
LastPrefix(last_lower) == Prefix(last_lower, PREFIX_LEN)

ExactMatch(c, first_lower, last_lower) ==
    Lower(c.first_name) = first_lower /\ Lower(c.last_name) = last_lower

\* The fallback without the test of the first name.
PrefixMatchAnyFirst(c, first_lower, last_prefix) ==
    StartsWith(Lower(c.last_name), last_prefix)

PrefixMatch(c, first_lower, last_prefix) ==
    Lower(c.first_name) = first_lower /\ StartsWith(Lower(c.last_name), last_prefix)

\* The position of the first TRUE of a sequence of flags, 0 when there is
\* none: the element a `for ... if ...: return` loop stops at.
FirstTrue(flags) ==
    IF \E i \in DOMAIN flags : flags[i]
    THEN CHOOSE i \in DOMAIN flags : flags[i] /\ \A j \in 1..(i - 1) : ~flags[j]
    ELSE 0

ItemAt(connections, i) == IF i = 0 THEN None ELSE Some(connections[i])

\* A single loop that takes the first candidate matching either rule.
find_linkedin_match_one_pass(first_name, last_name, connections) ==
    LET first_lower == Strip(Lower(first_name))
        last_lower == Strip(Lower(last_name))
        either == [i \in DOMAIN connections |->
                    \/ ExactMatch(connections[i], first_lower, last_lower)
                    \/ /\ Len(last_lower) >= PREFIX_LEN
                       /\ PrefixMatch(connections[i], first_lower,
                                      LastPrefix(last_lower))]
    IN  ItemAt(connections, FirstTrue(either))

find_linkedin_match(first_name, last_name, connections) ==
    LET first_lower == Strip(Lower(first_name))
        last_lower == Strip(Lower(last_name))
        exact == [i \in DOMAIN connections |->
                    ExactMatch(connections[i], first_lower, last_lower)]
        fallback == [i \in DOMAIN connections |->
                    PrefixMatch(connections[i], first_lower,
                                LastPrefix(last_lower))]
    IN  IF FirstTrue(exact) # 0 THEN ItemAt(connections, FirstTrue(exact))
        ELSE IF Len(last_lower) >= PREFIX_LEN
             THEN ItemAt(connections, FirstTrue(fallback))
        ELSE None

\* ------------------------------------------------------------------------
\* The record store (tables people, outreach, sources, enrichment_log) and
\* Python values
\* ------------------------------------------------------------------------

\* No stage process is running.
Idle == [agent |-> "idle"]

\* The control server is not part of a stage run: no job was ever started.
ServerOff == [_proc |-> 0]

\* SQL NULL / Python None in a text column.
Null == "NULL"

\* Python truthiness of a text value: None and "" are false.
Falsy(v) == v = Null \/ v = ""

\* A store write or an external call can fail (network, constraint, outage).
\* A run of a stage is followed through at most MaxFaults such failures;
\* Failed(flags) counts the failures of one step.
MaxFaults == 1

Failed(flags) == Cardinality({i \in DOMAIN flags : flags[i]})

FaultsAllowed(flags) == proc.faults + Failed(flags) <= MaxFaults

\* dict.update / a partial-field update of one row: the columns of updates
\* replace the row's, the others stay.
ApplyUpdates(row, updates) ==
    [col \in DOMAIN row |->
        IF col \in DOMAIN updates THEN updates[col] ELSE row[col]]

UpdateNoRow(table, pid, updates) == table

\* supabase.table("people").update(updates).eq("id", pid)
UpdatePerson(table, pid, updates) ==
    [i \in DOMAIN table |->
        IF table[i].id = pid THEN ApplyUpdates(table[i], updates) ELSE table[i]]

\* The rows of a table that satisfy a flag per row, in table order.
RECURSIVE SelectRows(_, _)
SelectRows(table, keep) ==
    IF table = <<>> THEN <<>>
    ELSE (IF Head(keep) THEN <<Head(table)>> ELSE <<>>)
         \o SelectRows(Tail(table), Tail(keep))

MARKER == "[1st-degree LinkedIn connection]"

\* The sequences over S of length at most n.
SeqsUpTo(S, n) == UNION {[1..k -> S] : k \in 0..n}

\* ------------------------------------------------------------------------
\* enrich.py: the enrichment stage
\* ------------------------------------------------------------------------

\* if apollo_data.get(col) and not person.get(col): only a blank stored
\* value is filled.
StoredIsBlankAlways(person, col) == TRUE

StoredIsBlank(person, col) == Falsy(person[col])

\* One entry of the updates dict, present when cond holds.
Entry(cond, col, val) == IF cond THEN col :> val ELSE <<>>

\* enrich_person, step 1: the entries taken from a people-data match.
ApolloUpdates(person, apollo_data) ==
    Entry(~Falsy(apollo_data.email) /\ StoredIsBlank(person, "email"),
          "email", apollo_data.email)
    @@ Entry(~Falsy(apollo_data.linkedin_url) /\ StoredIsBlank(person, "linkedin"),
             "linkedin", apollo_data.linkedin_url)
    @@ Entry(~Falsy(apollo_data.title) /\ StoredIsBlank(person, "title"),
             "title", apollo_data.title)
    @@ Entry(~Falsy(apollo_data.seniority), "seniority", apollo_data.seniority)
    @@ ("apollo_data" :> apollo_data.raw)

LinkedinUpdatesNoTest(person, linkedin_match, updates) ==
    "context" :> Strip(person.context \o <<" ", MARKER>>)

\* enrich_person, step 2: the entries added from an offline-contact match,
\* given the entries already in updates.
LinkedinUpdates(person, linkedin_match, updates) ==
    LET existing_context == person.context
    IN  Entry(/\ ~Falsy(linkedin_match.email)
              /\ StoredIsBlank(person, "email")
              /\ "email" \notin DOMAIN updates,
              "email", linkedin_match.email)
        @@ Entry(/\ ~Falsy(linkedin_match.linkedin_url)
                 /\ StoredIsBlank(person, "linkedin")
                 /\ "linkedin" \notin DOMAIN updates,
                 "linkedin", linkedin_match.linkedin_url)
        @@ Entry(/\ ~Falsy(linkedin_match.position)
                 /\ StoredIsBlank(person, "title")
                 /\ "title" \notin DOMAIN updates,
                 "title", linkedin_match.position)
        @@ Entry(~Contains(existing_context, <<MARKER>>),
                 "context", Strip(existing_context \o <<" ", MARKER>>))

\* log_enrichment: one row appended unless dry_run; a failed insert is
\* swallowed (warning only).
log_enrichment_always(log, person_id, source, result, error, dry_run, insert_fails) ==
    IF insert_fails THEN log
    ELSE Append(log, [person_id |-> person_id, source |-> source,
                      result |-> result, error |-> error])
log_enrichment(log, person_id, source, result, error, dry_run, insert_fails) ==
    IF dry_run \/ insert_fails THEN log
    ELSE Append(log, [person_id |-> person_id, source |-> source,
                      result |-> result, error |-> error])

get_people_any_status(person_id, for_tag) ==
    SelectRows(people,
        [i \in DOMAIN people |->
            /\ person_id # 0 => people[i].id = person_id
            /\ for_tag # "" => people[i].for_tag = for_tag])

\* get_people: the rows an enrichment run works on.
get_people(person_id, for_tag) ==
    SelectRows(people,
        [i \in DOMAIN people |->
            /\ IF person_id # 0 THEN people[i].id = person_id
               ELSE people[i].status = "discovered"
            /\ for_tag # "" => people[i].for_tag = for_tag])

\* What match_person can hand to enrich_person: a normalized match, no match
\* (None), or an exception (an HTTP error it re-raises, or its own
\* "rate limit exceeded after 3 retries").
ApolloMatch(email, linkedin_url, title) ==
    [kind |-> "match",
     data |-> [email |-> email, linkedin_url |-> linkedin_url, title |-> title,
               seniority |-> IF title = "" THEN "" ELSE "vp",
               raw |-> "raw"]]

ApolloOutcomes ==
    {ApolloMatch("", "", ""), ApolloMatch("apollo", "", ""),
     ApolloMatch("", "apollo", "apollo"), ApolloMatch("apollo", "apollo", "apollo")}
    \cup {[kind |-> "none"]}
    \cup {[kind |-> "error", error |-> e] : e \in {"HTTPError", "retries exceeded"}}

\* enrich_person: the summary it returns and the tables it leaves, for one
\* outcome of the people-data lookup and of each store write.
enrich_person(person, connections, dry_run, apollo, log1_fails, log2_fails, update_fails) ==
    LET parts == SplitName(person.name)
        first_name == IF parts # <<>> THEN parts[1] ELSE person.name
        last_name == IF Len(parts) > 1 THEN parts[2] ELSE <<>>
        apollo_data == IF apollo.kind = "match" THEN Some(apollo.data) ELSE None
        apollo_error == IF apollo.kind = "error" THEN <<apollo.error>> ELSE <<>>
        updates1 ==
            IF apollo.kind = "match" THEN ApolloUpdates(person, apollo.data)
            ELSE <<>>
        log1 == log_enrichment(enrichment_log, person.id, "apollo", apollo_data,
                               apollo_error, dry_run, log1_fails)
        linkedin_match ==
            IF connections # None
            THEN find_linkedin_match(first_name, last_name, connections[1])
            ELSE None
        updates ==
            IF linkedin_match # None
            THEN updates1 @@ LinkedinUpdates(person, linkedin_match[1], updates1)
            ELSE updates1
        log2 == log_enrichment(log1, person.id, "linkedin_csv", linkedin_match,
                               <<>>, dry_run, log2_fails)
        written ==
            IF DOMAIN updates # {} THEN ("status" :> "enriched") @@ updates
            ELSE "status" :> "enriched"
        update_error ==
            IF DOMAIN updates # {} /\ ~dry_run /\ update_fails
            THEN <<"update">> ELSE <<>>
    IN  [result |-> [person_id |-> person.id,
                     apollo |-> apollo.kind = "match",
                     linkedin |-> linkedin_match # None,
                     error |-> apollo_error \o update_error,
                     \* printed: "Updated: ..." / "[DRY RUN] Would update: ..."
                     updates |-> updates],
         people |-> IF dry_run \/ update_fails THEN people
                    ELSE UpdatePerson(people, person.id, written),
         enrichment_log |-> log2]

\* main, up to the loop: the people to enrich are read once.
EnrichStart(person_id, for_tag, dry_run, connections) ==
    /\ proc = Idle
    /\ proc' = [agent |-> "enrich", person_id |-> person_id,
                for_tag |-> for_tag, dry_run |-> dry_run,
                connections |-> connections,
                queue |-> get_people(person_id, for_tag),
                results |-> <<>>, faults |-> 0, exit |-> None]
    /\ UNCHANGED <<storeVars, now, call, server>>

\* main, one turn of the loop: enrich_person on the next person read.
EnrichPerson ==
    /\ proc.agent = "enrich"
    /\ proc.exit = None
    /\ Len(proc.results) < Len(proc.queue)
    /\ \E apollo \in ApolloOutcomes, log1_fails, log2_fails, update_fails \in BOOLEAN :
        LET flags == <<apollo.kind = "error", log1_fails, log2_fails,
                       update_fails>>
            r == enrich_person(proc.queue[Len(proc.results) + 1],
                               proc.connections, proc.dry_run, apollo,
                               log1_fails, log2_fails, update_fails)
        IN  /\ FaultsAllowed(flags)
            /\ proc.dry_run => ~(log1_fails \/ log2_fails \/ update_fails)
            /\ people' = r.people
            /\ enrichment_log' = r.enrichment_log
            /\ proc' = [proc EXCEPT !.results = Append(@, r.result),
                                    !.faults = @ + Failed(flags)]
    /\ UNCHANGED <<outreach, sources, now, call, server>>

\* main, after the loop: exit 1 when any result carries an error, else 0
\* (also when there was nobody to enrich).
EnrichExit ==
    /\ proc.agent = "enrich"
    /\ proc.exit = None
    /\ Len(proc.results) = Len(proc.queue)
    /\ proc' = [proc EXCEPT !.exit =
                   Some(IF \E i \in DOMAIN proc.results : proc.results[i].error # <<>>
                        THEN 1 ELSE 0)]
    /\ UNCHANGED <<storeVars, now, call, server>>

\* ------------------------------------------------------------------------
\* Enrichment runs over bounded stores
\* ------------------------------------------------------------------------

MaxPeople == 2

Statuses == {"discovered", "enriched", "outreach_drafted"}

AlLim == <<"A", "l", " ", "L", "i", "m">>
Bo == <<"B", "o">>
NameOf(i) == IF i % 2 = 1 THEN AlLim ELSE Bo
TagOf(i) == IF i % 2 = 1 THEN "acceler" ELSE "terra"

\* A row of people as process_source inserts it, with the columns the later
\* stages fill still NULL.
PersonRow(id, status, email, linkedin, title, context) ==
    [id |-> id, key |-> id, name |-> NameOf(id), for_tag |-> TagOf(id),
     status |-> status, email |-> email, linkedin |-> linkedin,
     title |-> title, context |-> context,
     seniority |-> Null, apollo_data |-> Null,
     priority_score |-> None, priority_reasons |-> None,
     shared_background |-> Null, scored_at |-> None]

Contexts == {<<"c">>, <<"c", " ", MARKER>>}

\* The first person varies over every status and blank pattern; the others
\* are a freshly discovered person or a fully known, already drafted one.
EnrichRows(i) ==
    IF i = 1
    THEN {PersonRow(i, st, f[1], f[2], f[3], c) :
            st \in Statuses, c \in Contexts,
            f \in {<<"", "", "">>, <<"old", "", "">>, <<"", "old", "old">>,
                   <<"old", "old", "old">>}}
    ELSE {PersonRow(i, "discovered", "", "old", "", <<>>),
          PersonRow(i, "outreach_drafted", "old", "old", "old", <<"c">>)}

TablesOf(n) ==
    {t \in [1..n -> UNION {EnrichRows(i) : i \in 1..n}] :
        \A i \in 1..n : t[i] \in EnrichRows(i)}

\* An outreach row as draft.py inserts it.
OutreachRow(person_id, subject) ==
    [person_id |-> person_id, channel |-> "email", subject |-> subject,
     body |-> subject, research_notes |-> Null, tone |-> Null,
     status |-> "drafted"]

\* One outreach row for every person of the table that is outreach_drafted.
RECURSIVE OutreachFor(_)
OutreachFor(table) ==
    IF table = <<>> THEN <<>>
    ELSE OutreachFor(SubSeq(table, 1, Len(table) - 1))
         \o (IF table[Len(table)].status = "outreach_drafted"
             THEN <<OutreachRow(table[Len(table)].id, "s0")>> ELSE <<>>)

ConnectionRow(first, last, email, position, linkedin_url) ==
    [first_name |-> first, last_name |-> last, email |-> email,
     position |-> position, linkedin_url |-> linkedin_url]

\* --connections-csv absent, or one of two exports.
EnrichConnections ==
    {None,
     Some(<<ConnectionRow(<<"A", "l">>, <<"L", "i", "m", "-", "N", "g">>,
                          "csv", "csv", "csv")>>),
     Some(<<ConnectionRow(<<"A", "L">>, <<"L", "I", "M">>, "", "csv", ""),
            ConnectionRow(<<"B", "o">>, <<>>, "csv", "", "")>>)}

EnrichInit ==
    /\ \E n \in 1..MaxPeople : people \in TablesOf(n)
    /\ outreach = OutreachFor(people)
    /\ sources = <<>>
    /\ enrichment_log = <<>>
    /\ now = 0
    /\ proc = Idle
    /\ call = [fn |-> "none"]
    /\ server = ServerOff

EnrichNext ==
    \/ /\ proc = Idle
       /\ \E person_id \in 0..Len(people), for_tag \in {"", "acceler"},
             dry_run \in BOOLEAN, connections \in EnrichConnections :
               EnrichStart(person_id, for_tag, dry_run, connections)
    \/ EnrichPerson
    \/ EnrichExit

SpecEnrich == EnrichInit /\ [][EnrichNext]_vars

FillBlankColumns == {"email", "linkedin", "title"}

\* The updates dict of every person enriched so far in this run holds email,
\* linkedin or title only where the row read for that person had it blank.
UpdatesOnlyBlanks ==
    proc.agent = "enrich" =>
        \A k \in DOMAIN proc.results : \A col \in FillBlankColumns :
            col \in DOMAIN proc.results[k].updates => Falsy(proc.queue[k][col])

\* A step keeps every non-empty email, linkedin and title of every person.
NonEmptyKept ==
    \A i \in DOMAIN people : \A col \in FillBlankColumns :
        ~Falsy(people[i][col]) => people'[i][col] = people[i][col]

\* C1: fill-blanks-only law. No enrichment pass, whatever the people-data
\* result and the offline-contact match, changes an email, linkedin or title
\* that was non-empty before the pass, and enrich_person puts such a column
\* into its updates only when the value it read is blank.
C1_FillBlanksOnly == [](UpdatesOnlyBlanks) /\ [][NonEmptyKept]_vars

\* C1 witness: a person with a stored email was enriched by a people-data
\* match offering another email; the email is kept and the blank title was
\* filled from the match.
C1_Witness ==
    /\ proc.agent = "enrich"
    /\ \E k \in DOMAIN proc.results :
        LET q == proc.queue[k] IN
        /\ q.email = "old" /\ q.title = ""
        /\ people[q.id].email = "old"
        /\ people[q.id].title = "apollo"
        /\ \E j \in DOMAIN enrichment_log :
            /\ enrichment_log[j].person_id = q.id
            /\ enrichment_log[j].source = "apollo"
            /\ enrichment_log[j].result # None
            /\ enrichment_log[j].result[1].email = "apollo"

Rank(status) ==
    CASE status = "discovered" -> 0
      [] status = "enriched" -> 1
      [] status = "outreach_drafted" -> 2

\* C2 as stated: no step of an enrichment run leaves a prospect with a lower
\* status than it had (discovered < enriched < outreach_drafted).
C2_AsStated ==
    [][\A i \in DOMAIN people :
          Rank(people'[i].status) >= Rank(people[i].status)]_vars

\* ------------------------------------------------------------------------
\* draft.py: the basic drafting stage
\* ------------------------------------------------------------------------

DEFAULT_MIN_SCORE == 40

\* What a drafting LLM call can yield: a parsed {subject, body}, text that
\* does not parse to one (json.loads or the key lookup raises), an API error,
\* or "rate limit exceeded after 3 retries".
DraftOutcomes ==
    {[kind |-> "ok", subject |-> t] : t \in {"s1", "s2"}}
    \cup {[kind |-> k] : k \in {"malformed", "api error", "retries exceeded"}}

\* get_people_to_draft
get_people_to_draft(person_id, for_tag, min_score) ==
    SelectRows(people,
        [i \in DOMAIN people |->
            /\ IF person_id # 0 THEN people[i].id = person_id
               ELSE /\ people[i].status = "enriched"
                    /\ people[i].priority_score # None
                    /\ people[i].priority_score[1] >= min_score
            /\ for_tag # "" => people[i].for_tag = for_tag])

\* get_already_drafted_ids
get_already_drafted_ids ==
    {outreach[j].person_id : j \in DOMAIN outreach}

\* main: people = [p for p in people if p["id"] not in already_drafted],
\* unless --force.
KeepAll(rows, force) == rows

FilterDrafted(rows, force) ==
    IF force THEN rows
    ELSE SelectRows(rows,
            [i \in DOMAIN rows |-> rows[i].id \notin get_already_drafted_ids])

\* main, up to the loop.
DraftStart(person_id, for_tag, min_score, dry_run, force, templates) ==
    /\ proc = Idle
    /\ LET found == get_people_to_draft(person_id, for_tag, min_score)
           queue == FilterDrafted(found, force)
       IN  proc' = [agent |-> "draft", person_id |-> person_id,
                    for_tag |-> for_tag, min_score |-> min_score,
                    dry_run |-> dry_run, force |-> force,
                    templates |-> templates, queue |-> queue, done |-> 0,
                    drafted |-> 0, skipped |-> Len(found) - Len(queue),
                    errors |-> 0, llm_calls |-> <<>>, faults |-> 0, exit |-> None]
    /\ UNCHANGED <<storeVars, now, call, server>>

\* main, one turn of the loop.
DraftPerson ==
    /\ proc.agent = "draft"
    /\ proc.exit = None
    /\ proc.done < Len(proc.queue)
    /\ LET person == proc.queue[proc.done + 1] IN
       \/ \* no introductory_email.md for the tag: skipped
          /\ person.for_tag \notin proc.templates
          /\ proc' = [proc EXCEPT !.done = @ + 1, !.skipped = @ + 1]
          /\ UNCHANGED storeVars
       \/ /\ person.for_tag \in proc.templates
          /\ \E llm \in DraftOutcomes, insert_fails, update_fails \in BOOLEAN :
              LET flags == <<llm.kind # "ok", insert_fails, update_fails>>
                  writes == llm.kind = "ok" /\ ~proc.dry_run
                  inserted == writes /\ ~insert_fails
                  ok == llm.kind = "ok" /\ ~(writes /\ (insert_fails \/ update_fails))
              IN  /\ FaultsAllowed(flags)
                  /\ insert_fails => writes
                  /\ update_fails => inserted
                  /\ outreach' =
                        IF inserted
                        THEN Append(outreach, OutreachRow(person.id, llm.subject))
                        ELSE outreach
                  /\ people' =
                        IF inserted /\ ~update_fails
                        THEN UpdatePerson(people, person.id,
                                          "status" :> "outreach_drafted")
                        ELSE people
                  /\ proc' = [proc EXCEPT
                        !.done = @ + 1,
                        !.drafted = IF ok THEN @ + 1 ELSE @,
                        !.errors = IF ok THEN @ ELSE @ + 1,
                        !.llm_calls = Append(@, person.id),
                        !.faults = @ + Failed(flags)]
                  /\ UNCHANGED <<sources, enrichment_log>>
    /\ UNCHANGED <<now, call, server>>

\* main, after the loop (or nobody to draft for): exit 1 when errors > 0.
DraftExit ==
    /\ proc.agent = "draft"
    /\ proc.exit = None
    /\ proc.done = Len(proc.queue)
    /\ proc' = [proc EXCEPT !.exit = Some(IF proc.errors > 0 THEN 1 ELSE 0)]
    /\ UNCHANGED <<storeVars, now, call, server>>

\* ------------------------------------------------------------------------
\* research_draft.py: research-augmented drafting of one person
\* ------------------------------------------------------------------------

\* What the research LLM call can yield: parsed findings, or a failure (no
\* text, text that does not parse, an API error, retries exceeded).
ResearchOutcomes ==
    {[kind |-> "ok", notes |-> "r1"]}
    \cup {[kind |-> k] : k \in {"malformed", "retries exceeded"}}

\* supabase.table("outreach").select("id").eq("person_id", ...): the ids
\* (positions) of the person's outreach rows.
RowsOf(table, person_id) ==
    {j \in DOMAIN table : table[j].person_id = person_id}

ExistingOutreach(person_id) == RowsOf(outreach, person_id)

FirstOf(ids) == CHOOSE j \in ids : \A k \in ids : j <= k

\* save_to_db, the outreach write: the first existing row of the person is
\* updated in place, else a row is inserted.
save_outreach(person, subject, notes, tone) ==
    LET existing == ExistingOutreach(person.id)
        fields == [subject |-> subject, body |-> subject,
                   research_notes |-> notes, tone |-> tone,
                   status |-> "drafted"]
    IN  IF existing # {}
        THEN [outreach EXCEPT ![FirstOf(existing)] = ApplyUpdates(@, fields)]
        ELSE Append(outreach,
                    ApplyUpdates(OutreachRow(person.id, subject), fields))

\* main, up to the try block: the person is fetched, an existing draft ends
\* the run with exit 0 unless --force, a missing template with exit 1.
ResearchStart(person_id, tone, for_tag, dry_run, force, templates) ==
    /\ proc = Idle
    /\ LET found == SelectRows(people,
                        [i \in DOMAIN people |-> people[i].id = person_id])
           tag == IF for_tag # "" THEN for_tag ELSE found[1].for_tag
           exit == IF found = <<>> THEN Some(1)
                   ELSE IF ~force /\ ExistingOutreach(found[1].id) # {}
                        THEN Some(0)
                   ELSE IF tag \notin templates THEN Some(1)
                   ELSE None
       IN  proc' = [agent |-> "research_draft", person_id |-> person_id,
                    tone |-> tone, for_tag |-> for_tag, dry_run |-> dry_run,
                    force |-> force, templates |-> templates,
                    queue |-> found, llm_calls |-> <<>>, faults |-> 0,
                    exit |-> exit]
    /\ UNCHANGED <<storeVars, now, call, server>>

\* main, the try block: research, draft, save; any exception exits 1.
ResearchDraft ==
    /\ proc.agent = "research_draft"
    /\ proc.exit = None
    /\ LET person == proc.queue[1] IN
       \E research \in ResearchOutcomes, save_fails, update_fails \in BOOLEAN :
       \E llm \in IF research.kind = "ok" THEN DraftOutcomes
                  ELSE {[kind |-> "not called"]} :
          LET drafts == research.kind = "ok"
              writes == drafts /\ llm.kind = "ok" /\ ~proc.dry_run
              flags == <<research.kind # "ok", drafts /\ llm.kind # "ok",
                         save_fails, update_fails>>
              saved == writes /\ ~save_fails
              ok == drafts /\ llm.kind = "ok"
                    /\ ~(writes /\ (save_fails \/ update_fails))
          IN  /\ FaultsAllowed(flags)
              /\ save_fails => writes
              /\ update_fails => saved
              /\ outreach' =
                    IF saved
                    THEN save_outreach(person, llm.subject, research.notes,
                                       proc.tone)
                    ELSE outreach
              /\ people' =
                    IF saved /\ ~update_fails
                    THEN UpdatePerson(people, person.id,
                                      "status" :> "outreach_drafted")
                    ELSE people
              /\ proc' = [proc EXCEPT
                    !.llm_calls = @ \o <<person.id>>
                                    \o (IF drafts THEN <<person.id>> ELSE <<>>),
                    !.faults = @ + Failed(flags),
                    !.exit = Some(IF ok THEN 0 ELSE 1)]
    /\ UNCHANGED <<sources, enrichment_log, now, call, server>>

\* ------------------------------------------------------------------------
\* Drafting runs over bounded stores
\* ------------------------------------------------------------------------

Tags == {"acceler", "terra"}

\* Scores below, at and above the default threshold.
DraftScores == {None, Some(30), Some(40)}

WithScore(row, score) == [row EXCEPT !.priority_score = score]

\* The first person varies over every status and score; the others are an
\* enriched person above the threshold or an already drafted one.
DraftRows(i) ==
    IF i = 1
    THEN {WithScore(PersonRow(i, st, "", "", "", <<>>), sc) :
            st \in Statuses, sc \in DraftScores}
    ELSE {WithScore(PersonRow(i, st, "", "", "", <<>>), Some(70)) :
            st \in {"enriched", "outreach_drafted"}}

\* The outreach table for a set of people that have a row.
RECURSIVE OutreachOf(_, _)
OutreachOf(n, drafted) ==
    IF n = 0 THEN <<>>
    ELSE OutreachOf(n - 1, drafted)
         \o (IF n \in drafted THEN <<OutreachRow(n, "s0")>> ELSE <<>>)

\* A person can have an outreach row in any status (the status write after
\* the insert can fail; --person-id drafts for any status); a person that is
\* outreach_drafted has one.
DraftInit ==
    /\ \E n \in 1..MaxPeople :
        /\ people \in [1..n -> UNION {DraftRows(i) : i \in 1..n}]
        /\ \A i \in 1..n : people[i] \in DraftRows(i)
        /\ \E drafted \in SUBSET (1..n) :
            /\ \A i \in 1..n : people[i].status = "outreach_drafted" => i \in drafted
            /\ outreach = OutreachOf(n, drafted)
    /\ sources = <<>>
    /\ enrichment_log = <<>>
    /\ now = 0
    /\ proc = Idle
    /\ call = [fn |-> "none"]
    /\ server = ServerOff

TemplateSets == {Tags, {"acceler"}}

DraftNext ==
    \/ /\ proc = Idle
       /\ \E person_id \in 0..Len(people), for_tag \in {"", "acceler"},
             min_score \in {DEFAULT_MIN_SCORE}, dry_run, force \in BOOLEAN,
             templates \in TemplateSets :
               DraftStart(person_id, for_tag, min_score, dry_run, force, templates)
    \/ DraftPerson
    \/ DraftExit
    \/ /\ proc = Idle
       /\ \E person_id \in 1..(Len(people) + 1), tone \in {"warm"},
             for_tag \in {"", "acceler"}, dry_run, force \in BOOLEAN,
             templates \in TemplateSets :
               ResearchStart(person_id, tone, for_tag, dry_run, force, templates)
    \/ ResearchDraft

SpecDraft == DraftInit /\ [][DraftNext]_vars

\* C3 as stated: after any drafting run (basic or research path, with or
\* without --force and --person-id) every prospect has at most one outreach
\* row.
C3_AsStated ==
    \A i \in DOMAIN people : Cardinality(ExistingOutreach(people[i].id)) <= 1

\* The LLM calls made so far by the running process.
CallsOf(p) == IF p.agent \in {"draft", "research_draft"} THEN p.llm_calls ELSE <<>>

\* A step of a drafting run without --force leaves a person that has an
\* outreach row alone: no LLM call is made for it, its outreach rows are the
\* same rows with the same contents, and its people row is unchanged.
DraftedLeftAlone ==
    (proc'.agent \in {"draft", "research_draft"} /\ ~proc'.force) =>
        \A i \in DOMAIN people :
            LET pid == people[i].id
                rows == ExistingOutreach(pid)
            IN  rows # {} =>
                /\ people'[i] = people[i]
                /\ RowsOf(outreach', pid) = rows
                /\ \A j \in rows : outreach'[j] = outreach[j]
                /\ \A k \in (Len(CallsOf(proc)) + 1)..Len(CallsOf(proc')) :
                       CallsOf(proc')[k] # pid

\* C4: drafting without --force for a prospect that already has an outreach
\* row is a no-op on both paths: the prospect is skipped before any LLM call,
\* no outreach row of it is inserted or changed, and its record is unchanged.
C4_NoOpWithoutForce == [][DraftedLeftAlone]_vars

\* C4 witness: a basic run without --force (not a dry run) has finished; an
\* eligible enriched person that had a row was skipped, with no LLM call and
\* its one row as it was, while another person was drafted.
C4_Witness ==
    /\ proc.agent = "draft" /\ ~proc.force /\ ~proc.dry_run
    /\ proc.exit # None
    /\ proc.drafted >= 1
    /\ proc.skipped >= 1
    /\ \E i \in DOMAIN people :
        /\ people[i].status = "enriched"
        /\ people[i].priority_score = Some(DEFAULT_MIN_SCORE)
        /\ \A k \in DOMAIN proc.llm_calls : proc.llm_calls[k] # people[i].id
        /\ \E j \in DOMAIN outreach :
            /\ ExistingOutreach(people[i].id) = {j}
            /\ outreach[j].subject = "s0"

\* ------------------------------------------------------------------------
\* discovery.py: the discovery stage
\* ------------------------------------------------------------------------

\* Timestamps are minutes; timedelta(hours=h) is h * MinutesPerHour.
MinutesPerHour == 60

\* The hours of the pre-filter in the query of get_due_sources.
PREFILTER_HOURS == 1

get_due_sources_checked(source_id) ==
    SelectRows(sources,
        [i \in DOMAIN sources |->
            LET s == sources[i] IN
            /\ s.is_active
            /\ source_id # 0 => s.id = source_id
            /\ \/ s.last_checked_at = None
               \/ now - s.last_checked_at[1]
                      >= s.check_frequency_hours * MinutesPerHour])

\* get_due_sources: the active sources the query returns (one source by id,
\* or those never checked or checked more than an hour ago), kept when a
\* source id was given, when never checked, or when now - last >= freq.
get_due_sources(source_id) ==
    SelectRows(sources,
        [i \in DOMAIN sources |->
            LET s == sources[i] IN
            /\ s.is_active
            /\ IF source_id # 0 THEN s.id = source_id
               ELSE \/ s.last_checked_at = None
                    \/ s.last_checked_at[1] < now - PREFILTER_HOURS * MinutesPerHour
            /\ \/ source_id # 0
               \/ s.last_checked_at = None
               \/ now - s.last_checked_at[1]
                      >= s.check_frequency_hours * MinutesPerHour])

\* The text of the exception the store raises on a uniqueness conflict, and
\* of another failed insert.
DuplicateError ==
    <<"2", "3", "5", "0", "5", ":", " ",
      "D", "u", "p", "l", "i", "c", "a", "t", "e", " ", "k", "e", "y">>
OtherError == <<"t", "i", "m", "e", "o", "u", "t">>

\* process_source: "duplicate" in err_str.lower() or "23505" in err_str
IsDuplicateNever(err_str) == FALSE
IsDuplicateAlways(err_str) == TRUE

IsDuplicate(err_str) ==
    \/ Contains(Lower(err_str), <<"d", "u", "p", "l", "i", "c", "a", "t", "e">>)
    \/ Contains(err_str, <<"2", "3", "5", "0", "5">>)

\* supabase.table("people").insert(row): the store assigns the id and
\* refuses a second row with the same identifying key.
InsertPersonUpsert(table, row, fails) ==
    IF fails THEN [people |-> table, error |-> OtherError]
    ELSE IF \E i \in DOMAIN table : table[i].key = row.key
    THEN [people |-> [i \in DOMAIN table |->
                        IF table[i].key = row.key
                        THEN [row EXCEPT !.id = table[i].id] ELSE table[i]],
          error |-> <<>>]
    ELSE [people |-> Append(table, [row EXCEPT !.id = Len(table) + 1]),
          error |-> <<>>]

InsertPerson(table, row, fails) ==
    IF fails THEN [people |-> table, error |-> OtherError]
    ELSE IF \E i \in DOMAIN table : table[i].key = row.key
    THEN [people |-> table, error |-> DuplicateError]
    ELSE [people |-> Append(table, [row EXCEPT !.id = Len(table) + 1]),
          error |-> <<>>]

\* process_source, step 3: the row built from one extracted person.
DiscoveredRow(p, for_tag) ==
    [PersonRow(0, "discovered", p.email, p.linkedin, p.title, p.context)
        EXCEPT !.key = p.key, !.name = NameOf(p.key), !.for_tag = for_tag]

\* process_source, step 3: the insert loop over the extracted people, with
\* the inserts that fail for another reason than a conflict.
RECURSIVE InsertAll(_, _, _, _)
InsertAll(table, extracted, for_tag, fails) ==
    IF extracted = <<>>
    THEN [people |-> table, inserted |-> 0, skipped |-> 0]
    ELSE LET r == InsertPerson(table, DiscoveredRow(Head(extracted), for_tag),
                               Head(fails))
             rest == InsertAll(r.people, Tail(extracted), for_tag, Tail(fails))
         IN  [people |-> rest.people,
              inserted |-> rest.inserted + (IF r.error = <<>> THEN 1 ELSE 0),
              skipped |-> rest.skipped
                          + (IF r.error # <<>> /\ IsDuplicate(r.error)
                             THEN 1 ELSE 0)]

\* What extract_people returns for one person of a page.
ExtractedPerson(key) ==
    [key |-> key, email |-> "", linkedin |-> "new", title |-> "new",
     context |-> <<"c">>]

\* The lists extract_people returns: no, one or two people, a person
\* possibly listed twice.
ExtractedLists ==
    {<<>>}
    \cup {<<ExtractedPerson(k)>> : k \in 1..MaxPeople}
    \cup {<<ExtractedPerson(k[1]), ExtractedPerson(k[2])>> :
            k \in {q \in (1..MaxPeople) \X (1..MaxPeople) : q[1] <= q[2]}}

\* main, up to the loop.
DiscoveryStart(source_id, dry_run) ==
    /\ proc = Idle
    /\ proc' = [agent |-> "discovery", source_id |-> source_id,
                dry_run |-> dry_run, queue |-> get_due_sources(source_id),
                people0 |-> Len(people), results |-> <<>>, faults |-> 0,
                exit |-> None]
    /\ UNCHANGED <<storeVars, now, call, server>>

\* process_source, step 4: the source is stamped with the time and the
\* number of people extracted, unless this is a dry run (which has returned
\* before) or the update fails (which is only a warning).
UpdateSourceAlways(table, id, count, dry_run, update_fails) ==
    UpdatePerson(table, id,
        [last_checked_at |-> Some(now), last_people_count |-> count])
UpdateSource(table, id, count, dry_run, update_fails) ==
    IF dry_run \/ update_fails THEN table
    ELSE UpdatePerson(table, id,
            [last_checked_at |-> Some(now), last_people_count |-> count])

\* main, one turn of the loop: process_source. The fetch or the extraction
\* can raise; a dry run returns before any write.
ProcessSource ==
    /\ proc.agent = "discovery"
    /\ proc.exit = None
    /\ Len(proc.results) < Len(proc.queue)
    /\ LET source == proc.queue[Len(proc.results) + 1] IN
       \/ \E stage \in {"fetch", "extract"} :
            /\ FaultsAllowed(<<TRUE>>)
            /\ proc' = [proc EXCEPT
                  !.results = Append(@, [error |-> stage]),
                  !.faults = @ + 1]
            /\ UNCHANGED storeVars
       \/ \E extracted \in ExtractedLists :
            \E fails \in [DOMAIN extracted -> BOOLEAN], update_fails \in BOOLEAN :
            LET r == InsertAll(people, extracted, source.for_tag, fails)
                flags == fails \o <<update_fails>>
            IN  /\ FaultsAllowed(flags)
                /\ proc.dry_run => Failed(flags) = 0
                /\ people' = IF proc.dry_run THEN people ELSE r.people
                /\ sources' = UpdateSource(sources, source.id, Len(extracted),
                                           proc.dry_run, update_fails)
                /\ proc' = [proc EXCEPT
                      !.results = Append(@,
                          [error |-> "",
                           extracted |-> Len(extracted),
                           inserted |-> IF proc.dry_run THEN 0 ELSE r.inserted,
                           skipped |-> IF proc.dry_run THEN 0 ELSE r.skipped]),
                      !.faults = @ + Failed(flags)]
                /\ UNCHANGED <<outreach, enrichment_log>>
    /\ UNCHANGED <<now, call, server>>

\* main, after the loop: exit 1 when some source's result carries an error.
DiscoveryExit ==
    /\ proc.agent = "discovery"
    /\ proc.exit = None
    /\ Len(proc.results) = Len(proc.queue)
    /\ proc' = [proc EXCEPT !.exit =
                   Some(IF \E k \in DOMAIN proc.results : proc.results[k].error # ""
                        THEN 1 ELSE 0)]
    /\ UNCHANGED <<storeVars, now, call, server>>

\* ------------------------------------------------------------------------
\* Runs of the discovery stage
\* ------------------------------------------------------------------------

MaxSources == 2

\* The time of the run, late enough for every age below.
DiscoveryNow == 200

SourceRow(id, is_active, check_frequency_hours, last_checked_at) ==
    [id |-> id, url |-> id, for_tag |-> TagOf(id), is_active |-> is_active,
     check_frequency_hours |-> check_frequency_hours,
     last_checked_at |-> last_checked_at, last_people_count |-> 0]

\* Never checked, or checked 10 minutes, one hour or two hours before the run.
LastChecked ==
    {None, Some(DiscoveryNow - 10), Some(DiscoveryNow - MinutesPerHour),
     Some(DiscoveryNow - 2 * MinutesPerHour)}

\* A source alone varies over activity, frequency and age; several sources
\* are each a source never checked or an hourly source checked ten minutes
\* ago.
SourceRows(i, n) ==
    IF n = 1
    THEN {SourceRow(i, a, f, l) : a \in BOOLEAN, f \in 0..2, l \in LastChecked}
    ELSE {SourceRow(i, TRUE, 1, None),
          SourceRow(i, TRUE, 1, Some(DiscoveryNow - 10))}

SourceTablesOf(n) ==
    {t \in [1..n -> UNION {SourceRows(i, n) : i \in 1..n}] :
        \A i \in 1..n : t[i] \in SourceRows(i, n)}

\* The people table before the run: empty, or left by earlier runs of the
\* pipeline.
DiscoveryPeople ==
    {<<>>,
     <<PersonRow(1, "enriched", "old", "old", "old", <<"c">>)>>,
     <<PersonRow(1, "discovered", "", "", "", <<>>),
       PersonRow(2, "outreach_drafted", "old", "old", "old", <<"c">>)>>}

DiscoveryInit ==
    /\ people \in DiscoveryPeople
    /\ outreach = OutreachFor(people)
    /\ \E n \in 1..MaxSources : sources \in SourceTablesOf(n)
    /\ enrichment_log = <<>>
    /\ now = DiscoveryNow
    /\ proc = Idle
    /\ call = [fn |-> "none"]
    /\ server = ServerOff

DiscoveryNext ==
    \/ /\ proc = Idle
       /\ \E source_id \in 0..Len(sources), dry_run \in BOOLEAN :
            DiscoveryStart(source_id, dry_run)
    \/ ProcessSource
    \/ DiscoveryExit

SpecDiscovery == DiscoveryInit /\ [][DiscoveryNext]_vars

\* The people rows this run of discovery added.
AddedRows == {i \in DOMAIN people : i > proc.people0}

RECURSIVE SumOver(_, _)
SumOver(results, field) ==
    IF results = <<>> THEN 0
    ELSE (IF Head(results).error = "" THEN Head(results)[field] ELSE 0)
         + SumOver(Tail(results), field)

\* C5: the people table never holds two rows with the same identifying key;
\* every row a discovery run adds has status discovered and is counted as
\* inserted; and in a run whose only insert failures are uniqueness
\* conflicts every extracted person is counted as inserted or as a skipped
\* duplicate, no result carries an error and the run exits 0.
C5_IdempotentInsert ==
    /\ \A i, j \in DOMAIN people : people[i].key = people[j].key => i = j
    /\ proc.agent = "discovery" =>
        /\ \A i \in AddedRows : people[i].status = "discovered"
        /\ Cardinality(AddedRows) = SumOver(proc.results, "inserted")
        /\ proc.faults = 0 =>
            /\ \A k \in DOMAIN proc.results :
                 /\ proc.results[k].error = ""
                 /\ proc.dry_run \/
                      proc.results[k].inserted + proc.results[k].skipped
                          = proc.results[k].extracted
            /\ proc.exit \in {None, Some(0)}

\* C5 witness: a finished run met a uniqueness conflict, counted it as
\* skipped, and added another person.
C5_Witness ==
    /\ proc.agent = "discovery"
    /\ proc.exit = Some(0)
    /\ \E k \in DOMAIN proc.results :
         /\ proc.results[k].error = ""
         /\ proc.results[k].skipped > 0
         /\ proc.results[k].inserted > 0

\* C8 as stated: without --source-id an active source is selected iff it was
\* never checked or now - last_checked_at >= check_frequency_hours.
C8_AsStated ==
    (proc.agent = "discovery" /\ proc.source_id = 0 /\ proc.results = <<>>) =>
        \A i \in DOMAIN sources :
            sources[i].is_active =>
                ((\E k \in DOMAIN proc.queue : proc.queue[k].id = sources[i].id)
                 <=> \/ sources[i].last_checked_at = None
                     \/ now - sources[i].last_checked_at[1]
                          >= sources[i].check_frequency_hours * MinutesPerHour)

\* ------------------------------------------------------------------------
\* score.py: the scoring stage
\* ------------------------------------------------------------------------

\* Re-score if older than this.
SCORE_STALE_DAYS == 7

\* In the scoring stage a time is [s |-> whole hours, u |-> fraction of an
\* hour in tenths]; timedelta(days=d) is d * HoursPerDay hours.
HoursPerDay == 24

\* datetime.isoformat(): a date-time part of fixed width, a fraction of
\* fixed width that is left out when it is zero, and the UTC offset.
StampDigits == 4
FractionDigits == 1

DigitChars == <<"0", "1", "2", "3", "4", "5", "6", "7", "8", "9">>

RECURSIVE Digits(_, _)
Digits(n, width) ==
    IF width = 0 THEN <<>>
    ELSE Digits(n \div 10, width - 1) \o <<DigitChars[(n % 10) + 1]>>

isoformat(t) ==
    Digits(t.s, StampDigits)
    \o (IF t.u = 0 THEN <<>> ELSE <<".">> \o Digits(t.u, FractionDigits))
    \o <<"+", "0", "0", ":", "0", "0">>

\* The characters of a timestamp in code-point order.
CharOrder ==
    <<"+", "-", ".", "0", "1", "2", "3", "4", "5", "6", "7", "8", "9", ":">>

Ord(c) == CHOOSE i \in DOMAIN CharOrder : CharOrder[i] = c

\* Python's < on str: the first differing character decides, a proper
\* prefix is smaller.
RECURSIVE StrLessEq(_, _)
StrLessEq(a, b) ==
    IF a = <<>> THEN TRUE
    ELSE IF b = <<>> THEN FALSE
    ELSE IF Head(a) # Head(b) THEN Ord(Head(a)) < Ord(Head(b))
    ELSE StrLessEq(Tail(a), Tail(b))

RECURSIVE StrLess(_, _)
StrLess(a, b) ==
    IF b = <<>> THEN FALSE
    ELSE IF a = <<>> THEN TRUE
    ELSE IF Head(a) # Head(b) THEN Ord(Head(a)) < Ord(Head(b))
    ELSE StrLess(Tail(a), Tail(b))

\* datetime.now(timezone.utc): the wall clock, kept in minutes, as the hour
\* and the tenth of the hour that isoformat renders.
Clock(t) ==
    [s |-> t \div MinutesPerHour,
     u |-> ((t % MinutesPerHour) * 10) \div MinutesPerHour]

\* get_people_to_score: cutoff
Cutoff(t) == [s |-> t.s - SCORE_STALE_DAYS * HoursPerDay, u |-> t.u]

\* get_people_to_score: the row by id, or the enriched rows (of a tag); under
\* force all of them, else those never scored or whose scored_at text sorts
\* before the cutoff's.
get_people_to_score_any_status(person_id, for_tag, force) ==
    SelectRows(people,
        [i \in DOMAIN people |->
            LET p == people[i] IN
            /\ IF person_id # 0 THEN p.id = person_id
               ELSE for_tag # "" => p.for_tag = for_tag
            /\ \/ force
               \/ p.scored_at = <<>>
               \/ StrLess(p.scored_at, isoformat(Cutoff(Clock(now))))])

get_people_to_score(person_id, for_tag, force) ==
    SelectRows(people,
        [i \in DOMAIN people |->
            LET p == people[i] IN
            /\ IF person_id # 0 THEN p.id = person_id
               ELSE p.status = "enriched" /\ (for_tag # "" => p.for_tag = for_tag)
            /\ \/ force
               \/ p.scored_at = <<>>
               \/ StrLess(p.scored_at, isoformat(Cutoff(Clock(now))))])

\* What score_person comes to: the parsed JSON object with whatever numbers
\* the LLM wrote, or an exception (rate limit after 3 attempts, another API
\* error, text that is not JSON), or an object without one of the score keys
\* (a KeyError in main).
ScoreResult(proximity, relevance, urgency, total) ==
    [kind |-> "ok", proximity_score |-> proximity, relevance_score |-> relevance,
     urgency_score |-> urgency, total_score |-> total]

ScoreOutcomes ==
    {ScoreResult(10, 20, 10, 40), ScoreResult(30, 40, 30, 100),
     ScoreResult(10, 20, 10, 70), ScoreResult(30, 40, 30, 150),
     ScoreResult(31, 40, 30, 101), ScoreResult(0 - 5, 0, 0, 0 - 5)}
    \cup {[kind |-> k] : k \in {"rate limited", "api error", "not json",
                                "missing key"}}

\* main: the columns of the update after a successful score_person.
ScoreUpdatesAndStatus(result, t) ==
    [priority_score |-> Some(result.total_score),
     priority_reasons |-> Some(<<result.proximity_score, result.relevance_score,
                                 result.urgency_score>>),
     shared_background |-> "shared",
     scored_at |-> isoformat(t),
     status |-> "enriched"]
ScoreUpdates(result, t) ==
    [priority_score |-> Some(result.total_score),
     priority_reasons |-> Some(<<result.proximity_score, result.relevance_score,
                                 result.urgency_score>>),
     shared_background |-> "shared",
     scored_at |-> isoformat(t)]

\* main, up to the loop.
ScoreStart(person_id, for_tag, dry_run, force) ==
    /\ proc = Idle
    /\ proc' = [agent |-> "score", person_id |-> person_id, for_tag |-> for_tag,
                dry_run |-> dry_run, force |-> force,
                queue |-> get_people_to_score(person_id, for_tag, force),
                results |-> <<>>, faults |-> 0, exit |-> None]
    /\ UNCHANGED <<storeVars, now, call, server>>

\* main, one turn of the loop: score_person, then the update of the row.
ScorePerson ==
    /\ proc.agent = "score"
    /\ proc.exit = None
    /\ Len(proc.results) < Len(proc.queue)
    /\ LET person == proc.queue[Len(proc.results) + 1] IN
       \E result \in ScoreOutcomes, update_fails \in BOOLEAN :
         LET raised == result.kind # "ok"
             flags == <<raised, update_fails>>
             written == ~raised /\ ~proc.dry_run /\ ~update_fails
         IN  /\ FaultsAllowed(flags)
             /\ update_fails => ~raised /\ ~proc.dry_run
             /\ people' =
                  IF written
                  THEN UpdatePerson(people, person.id, ScoreUpdates(result, Clock(now)))
                  ELSE people
             /\ proc' = [proc EXCEPT
                   !.results = Append(@, [id |-> person.id,
                                          outcome |-> IF raised \/ update_fails
                                                      THEN "error" ELSE "scored",
                                          llm |-> result]),
                   !.faults = @ + Failed(flags)]
    /\ UNCHANGED <<outreach, sources, enrichment_log, now, call, server>>

\* main, after the loop: exit 1 when errors > 0.
ScoreExit ==
    /\ proc.agent = "score"
    /\ proc.exit = None
    /\ Len(proc.results) = Len(proc.queue)
    /\ proc' = [proc EXCEPT !.exit =
                   Some(IF \E k \in DOMAIN proc.results :
                              proc.results[k].outcome = "error"
                        THEN 1 ELSE 0)]
    /\ UNCHANGED <<storeVars, now, call, server>>

\* ------------------------------------------------------------------------
\* Runs of the scoring stage
\* ------------------------------------------------------------------------

\* The hour of the run; the cutoff is seven days before it.
ScoreHour == 1169

ScoreClocks == {[s |-> ScoreHour, u |-> u] : u \in {0, 5}}
ScoreMinutes ==
    {c.s * MinutesPerHour + (c.u * MinutesPerHour) \div 10 : c \in ScoreClocks}

\* scored_at of a row: scored 8 days, 7 days and an hour, 7 days, 7 days
\* less an hour, or an hour before the hour of the run, on the hour or
\* past it.
ScoredTimes ==
    {[s |-> ScoreHour - h, u |-> u] :
        h \in {(SCORE_STALE_DAYS + 1) * HoursPerDay,
               SCORE_STALE_DAYS * HoursPerDay + 1,
               SCORE_STALE_DAYS * HoursPerDay,
               SCORE_STALE_DAYS * HoursPerDay - 1, 1},
        u \in {0, 5, 9}}

\* A row that was scored at time t.
Scored(row, t) ==
    [row EXCEPT !.priority_score = Some(40),
                !.priority_reasons = Some(<<10, 20, 10>>),
                !.shared_background = "shared",
                !.scored_at = isoformat(t)]

\* The first person is discovered and never scored, or enriched or already
\* drafted, never scored or scored at any of the times; the others are an
\* enriched person never scored or one scored an hour ago.
ScoreRows(i) ==
    LET row(st) == PersonRow(i, st, "old", "old", "old", <<"c">>) IN
    IF i = 1
    THEN {row(st) : st \in {"discovered", "enriched", "outreach_drafted"}}
         \cup {Scored(row(st), t) :
                 st \in {"enriched", "outreach_drafted"}, t \in ScoredTimes}
    ELSE {row("enriched"),
          Scored(row("enriched"), [s |-> ScoreHour - 1, u |-> 0])}

ScoreTablesOf(n) ==
    {t \in [1..n -> UNION {ScoreRows(i) : i \in 1..n}] :
        \A i \in 1..n : t[i] \in ScoreRows(i)}

ScoreInit ==
    /\ \E n \in 1..MaxPeople : people \in ScoreTablesOf(n)
    /\ outreach = OutreachFor(people)
    /\ sources = <<>>
    /\ enrichment_log = <<>>
    /\ now \in ScoreMinutes
    /\ proc = Idle
    /\ call = [fn |-> "none"]
    /\ server = ServerOff

ScoreNext ==
    \/ /\ proc = Idle
       /\ \E person_id \in 0..Len(people), for_tag \in {"", "acceler"},
             dry_run \in BOOLEAN, force \in BOOLEAN :
               /\ person_id # 0 => for_tag = ""
               /\ ScoreStart(person_id, for_tag, dry_run, force)
    \/ ScorePerson
    \/ ScoreExit

SpecScore == ScoreInit /\ [][ScoreNext]_vars

\* A stored score with its breakdown satisfies the aggregated score
\* invariant.
ValidScore(p) ==
    LET parts == p.priority_reasons[1]
        total == p.priority_score[1]
    IN  /\ total = parts[1] + parts[2] + parts[3]
        /\ total \in 0..100
        /\ parts[1] \in 0..30
        /\ parts[2] \in 0..40
        /\ parts[3] \in 0..30

\* C6 as stated: every persisted scoring result has total_score =
\* proximity + relevance + urgency, total in 0..100, proximity in 0..30,
\* relevance in 0..40 and urgency in 0..30.
C6_AsStated ==
    \A i \in DOMAIN people :
        people[i].priority_score # None => ValidScore(people[i])

\* The time a scored_at text stands for, and "earlier than".
TimeOf(text) ==
    CHOOSE t \in ScoredTimes \cup ScoreClocks : isoformat(t) = text

Before(a, b) == a.s < b.s \/ (a.s = b.s /\ a.u < b.u)

\* The rows the query of a scoring run selects.
SelectedForScoring(p) ==
    IF proc.person_id # 0 THEN p.id = proc.person_id
    ELSE p.status = "enriched" /\ (proc.for_tag # "" => p.for_tag = proc.for_tag)

\* C7: at the start of a scoring run, a selected prospect is in the queue
\* iff --force was passed, or its scored_at is null, or its scored_at is
\* earlier than now minus 7 days; no other prospect is in the queue.
C7_Staleness ==
    (proc.agent = "score" /\ proc.results = <<>>) =>
        \A i \in DOMAIN people :
            (\E k \in DOMAIN proc.queue : proc.queue[k].id = people[i].id)
            <=> /\ SelectedForScoring(people[i])
                /\ \/ proc.force
                   \/ people[i].scored_at = <<>>
                   \/ Before(TimeOf(people[i].scored_at), Cutoff(Clock(now)))

\* C7 witness: a run without --force that admitted a prospect scored eight
\* days ago and left out a selected prospect scored an hour ago.
C7_Witness ==
    /\ proc.agent = "score"
    /\ proc.results = <<>>
    /\ ~proc.force
    /\ \E k \in DOMAIN proc.queue :
         /\ proc.queue[k].scored_at # <<>>
         /\ TimeOf(proc.queue[k].scored_at).s
              = Clock(now).s - (SCORE_STALE_DAYS + 1) * HoursPerDay
    /\ \E i \in DOMAIN people :
         /\ SelectedForScoring(people[i])
         /\ people[i].scored_at # <<>>
         /\ TimeOf(people[i].scored_at).s = Clock(now).s - 1
         /\ \A k \in DOMAIN proc.queue : proc.queue[k].id # people[i].id

\* ------------------------------------------------------------------------
\* Parsing of LLM responses: json.loads and the steps before it
\* ------------------------------------------------------------------------

\* str.find / str.rfind of one character: its first / last position, 0 when
\* absent.
Find(s, c) ==
    IF \E i \in DOMAIN s : s[i] = c
    THEN CHOOSE i \in DOMAIN s : s[i] = c /\ \A j \in 1..(i - 1) : s[j] # c
    ELSE 0

RFind(s, c) ==
    IF \E i \in DOMAIN s : s[i] = c
    THEN CHOOSE i \in DOMAIN s : s[i] = c /\ \A j \in (i + 1)..Len(s) : s[j] # c
    ELSE 0

EndsWith(s, c) == s # <<>> /\ s[Len(s)] = c

\* str.rstrip(c)
RECURSIVE RStripChar(_, _)
RStripChar(s, c) ==
    IF EndsWith(s, c) THEN RStripChar(SubSeq(s, 1, Len(s) - 1), c) ELSE s

\* json.loads raised.
JSONError == [t |-> "error", v |-> <<>>]

ParseFail == [ok |-> FALSE, val |-> JSONError, next |-> 0]

Digit == {"0", "1", "2", "3", "4", "5", "6", "7", "8", "9"}

RECURSIVE SkipWs(_, _)
SkipWs(s, i) == IF i <= Len(s) /\ IsSpace(s[i]) THEN SkipWs(s, i + 1) ELSE i

RECURSIVE DigitsEnd(_, _)
DigitsEnd(s, i) == IF i <= Len(s) /\ s[i] \in Digit THEN DigitsEnd(s, i + 1) ELSE i

\* A string from the quote at i to the next quote.
ParseString(s, i) ==
    LET rest == SubSeq(s, i + 1, Len(s))
        j == Find(rest, QUOTE)
    IN  IF i > Len(s) \/ s[i] # QUOTE \/ j = 0 THEN ParseFail
        ELSE [ok |-> TRUE, val |-> [t |-> "str", v |-> SubSeq(rest, 1, j - 1)],
              next |-> i + j + 1]

\* The value that starts at position i: an array, an object, a string or a
\* number, with white space between the tokens.
RECURSIVE ParseValue(_, _)
RECURSIVE ParseElements(_, _, _)
RECURSIVE ParseMembers(_, _, _)
ParseValue(s, i) ==
    IF i > Len(s) THEN ParseFail
    ELSE IF s[i] = "["
    THEN LET j == SkipWs(s, i + 1) IN
         IF j <= Len(s) /\ s[j] = "]"
         THEN [ok |-> TRUE, val |-> [t |-> "arr", v |-> <<>>], next |-> j + 1]
         ELSE ParseElements(s, j, <<>>)
    ELSE IF s[i] = "{"
    THEN LET j == SkipWs(s, i + 1) IN
         IF j <= Len(s) /\ s[j] = "}"
         THEN [ok |-> TRUE, val |-> [t |-> "obj", v |-> <<>>], next |-> j + 1]
         ELSE ParseMembers(s, j, <<>>)
    ELSE IF s[i] = QUOTE THEN ParseString(s, i)
    ELSE IF s[i] \in Digit
    THEN [ok |-> TRUE,
          val |-> [t |-> "num", v |-> SubSeq(s, i, DigitsEnd(s, i) - 1)],
          next |-> DigitsEnd(s, i)]
    ELSE ParseFail

ParseElements(s, i, acc) ==
    LET r == ParseValue(s, i)
        j == SkipWs(s, r.next)
    IN  IF ~r.ok \/ j > Len(s) THEN ParseFail
        ELSE IF s[j] = "," THEN ParseElements(s, SkipWs(s, j + 1), Append(acc, r.val))
        ELSE IF s[j] = "]"
        THEN [ok |-> TRUE, val |-> [t |-> "arr", v |-> Append(acc, r.val)],
              next |-> j + 1]
        ELSE ParseFail

ParseMembers(s, i, acc) ==
    LET k == ParseString(s, i)
        c == SkipWs(s, k.next)
        r == ParseValue(s, SkipWs(s, c + 1))
        j == SkipWs(s, r.next)
        member == [key |-> k.val.v, val |-> r.val]
    IN  IF ~k.ok \/ c > Len(s) THEN ParseFail
        ELSE IF s[c] # ":" \/ ~r.ok \/ j > Len(s) THEN ParseFail
        ELSE IF s[j] = "," THEN ParseMembers(s, SkipWs(s, j + 1), Append(acc, member))
        ELSE IF s[j] = "}"
        THEN [ok |-> TRUE, val |-> [t |-> "obj", v |-> Append(acc, member)],
              next |-> j + 1]
        ELSE ParseFail

\* json.loads: one value with nothing but white space around it.
json_loads(s) ==
    LET r == ParseValue(s, SkipWs(s, 1)) IN
    IF r.ok /\ SkipWs(s, r.next) > Len(s) THEN r.val ELSE JSONError

FENCE == <<BACKTICK, BACKTICK, BACKTICK>>

\* The fence strip of an already stripped text: a text that starts with a
\* fence loses its first line (or the three backquotes when it has a single
\* line); then trailing backquotes and white space go.
strip_fences(text) ==
    LET body == IF StartsWith(text, FENCE)
                THEN IF Find(text, NL) # 0
                     THEN SubSeq(text, Find(text, NL) + 1, Len(text))
                     ELSE SubSeq(text, 4, Len(text))
                ELSE text
    IN  Strip(RStripChar(body, BACKTICK))

\* extract_people, from the response on: fence strip, cut before the first
\* "[", repair of a truncated array, json.loads.
extract_people_parse(content, stop_reason) ==
    LET fenced == strip_fences(Strip(content))
        array_start == Find(fenced, "[")
        located == IF array_start # 0
                   THEN SubSeq(fenced, array_start, Len(fenced)) ELSE fenced
        last_complete == RFind(located, "}")
        repaired == IF (stop_reason = "max_tokens" \/ ~EndsWith(located, "]"))
                       /\ last_complete # 0
                    THEN SubSeq(located, 1, last_complete) \o <<"]">>
                    ELSE located
    IN  json_loads(repaired)

\* score_person, draft_email and parse_json_response, from the response
\* text on: fence strip and json.loads.
parse_json_response(text) == json_loads(strip_fences(Strip(text)))

\* ------------------------------------------------------------------------
\* Calls of find_linkedin_match on bounded inputs
\* ------------------------------------------------------------------------

MaxConnections == 2

\* Everything but `call` at rest: an empty store and no running process.
StoreAtRest ==
    /\ people = <<>>
    /\ outreach = <<>>
    /\ sources = <<>>
    /\ enrichment_log = <<>>
    /\ now = 0
    /\ proc = Idle
    /\ server = ServerOff

\* A row of the connections export, as load_connections_csv builds it
\* (every field stripped).
Connection(first, last) ==
    [first_name |-> first, last_name |-> last, email |-> "",
     position |-> "", linkedin_url |-> ""]

QueryFirsts == {<<"A", "l">>, <<"a", "l">>, <<"B", "o">>}
QueryLasts ==
    {<<>>, <<"L", "i">>, <<"L", "i", "m">>, <<"l", "i", "m", " ">>,
     <<"L", "i", "m", "-", "N", "g">>}
ConnectionFirsts == {<<"A", "l">>, <<"A", "L">>, <<"B", "o">>}
ConnectionLasts ==
    {<<"L", "i">>, <<"L", "i", "m">>, <<"L", "i", "n">>,
     <<"L", "I", "M", "-", "N", "G">>}
ConnectionPool ==
    {Connection(f, l) : f \in ConnectionFirsts, l \in ConnectionLasts}

AnneMarie == <<"A", "n", "n", "e", "-", "M", "a", "r", "i", "e">>
OBrien == <<"O", "'", "B", "r", "i", "e", "n">>
ObrienSmith == <<"O", "b", "r", "i", "e", "n", "-", "S", "m", "i", "t", "h">>
OBrienSmith ==
    <<"O", "'", "B", "r", "i", "e", "n", "-", "S", "m", "i", "t", "h">>

MatchCall(first, last, connections) ==
    [fn |-> "find_linkedin_match", first_name |-> first, last_name |-> last,
     connections |-> connections, done |-> FALSE, ret |-> None]

ScenarioCalls ==
    {MatchCall(AnneMarie, OBrien, <<Connection(AnneMarie, ObrienSmith)>>),
     MatchCall(AnneMarie, OBrien, <<Connection(AnneMarie, OBrienSmith)>>)}

\* enrich_person: the call made for a stored name, split at the first run
\* of white space; a single word has the last name "".
MatchCallOfName(name, connections) ==
    LET parts == SplitName(name) IN
    MatchCall(IF parts # <<>> THEN parts[1] ELSE name,
              IF Len(parts) > 1 THEN parts[2] ELSE <<>>,
              connections)

StoredNames ==
    {Bo, AlLim, <<"A", "l", " ", " ", "L", "i", "m", "-", "N", "g", " ">>}

MatchInit ==
    /\ StoreAtRest
    /\ call \in
        {MatchCall(f, l, cs) :
            f \in QueryFirsts, l \in QueryLasts,
            cs \in SeqsUpTo(ConnectionPool, MaxConnections)}
        \cup ScenarioCalls
        \cup {MatchCallOfName(n, cs) :
                n \in StoredNames,
                cs \in SeqsUpTo(ConnectionPool, MaxConnections)}

MatchReturn ==
    /\ call.fn = "find_linkedin_match"
    /\ ~call.done
    /\ call' = [call EXCEPT
                   !.done = TRUE,
                   !.ret = find_linkedin_match(call.first_name, call.last_name,
                                               call.connections)]
    /\ UNCHANGED <<storeVars, now, proc, server>>

MatchNext == MatchReturn

SpecMatch == MatchInit /\ [][MatchNext]_vars

\* Case-insensitive equality of a candidate's names with the query's.
EqualsQuery(c, first, last) ==
    Lower(c.first_name) = Lower(first) /\ Lower(c.last_name) = Lower(last)

\* C9: whenever the candidate list holds a candidate whose first and last
\* name equal the query's case-insensitively, find_linkedin_match returns
\* the first such candidate, also when a prefix-fallback candidate stands
\* earlier in the list.
C9_ExactPreferred ==
    (call.fn = "find_linkedin_match" /\ call.done) =>
        LET cs == call.connections
            eq == [i \in DOMAIN cs |->
                     EqualsQuery(cs[i], call.first_name, call.last_name)]
        IN  FirstTrue(eq) # 0 => call.ret = Some(cs[FirstTrue(eq)])

\* C9 witness: the call returned an exact match that stands after a
\* candidate the prefix fallback would accept.
C9_Witness ==
    /\ call.fn = "find_linkedin_match" /\ call.done
    /\ call.ret # None
    /\ Len(call.connections) >= 2
    /\ call.ret[1] = call.connections[2]
    /\ EqualsQuery(call.connections[2], call.first_name, call.last_name)
    /\ ~EqualsQuery(call.connections[1], call.first_name, call.last_name)
    /\ PrefixMatch(call.connections[1], Lower(call.first_name),
                   LastPrefix(Lower(call.last_name)))

IsScenario(c, lastOfCandidate) ==
    /\ c.fn = "find_linkedin_match"
    /\ c.first_name = AnneMarie /\ c.last_name = OBrien
    /\ c.connections = <<Connection(AnneMarie, lastOfCandidate)>>

\* C10 as stated: Anne-Marie O'Brien against the single candidate
\* Anne-Marie Obrien-Smith returns that candidate.
C10_AsStated ==
    (IsScenario(call, ObrienSmith) /\ call.done) =>
        call.ret = Some(Connection(AnneMarie, ObrienSmith))

\* C10 amended: the prefix compared is "o'b", the first three characters of
\* the lowercased last name, so the candidate Obrien-Smith is not matched and
\* the call returns None; the candidate O'Brien-Smith is returned.
C10_Amended ==
    /\ (IsScenario(call, ObrienSmith) /\ call.done) => call.ret = None
    /\ (IsScenario(call, OBrienSmith) /\ call.done) =>
           call.ret = Some(Connection(AnneMarie, OBrienSmith))

\* C10 witness: the scenario's call has returned.
C10_Witness == IsScenario(call, ObrienSmith) /\ call.done

\* The least element of a non-empty set of positions.
MinOf(S) == CHOOSE i \in S : \A j \in S : i <= j

\* C11: the call returns the first candidate in input order whose names
\* equal the trimmed query's case-insensitively; if there is none and the
\* trimmed last name has at least 3 characters, the first candidate with an
\* equal first name whose last name starts with the first 3 characters of
\* the query's last name, case-insensitively; otherwise none. A last name
\* shorter than 3 characters (the empty last name of a single-word name
\* included) without an exact match returns none.
C11_FallbackAndOrder ==
    (call.fn = "find_linkedin_match" /\ call.done) =>
        LET cs == call.connections
            f == Strip(Lower(call.first_name))
            l == Strip(Lower(call.last_name))
            Exact == {i \in DOMAIN cs :
                        Lower(cs[i].first_name) = f /\ Lower(cs[i].last_name) = l}
            Pre == {i \in DOMAIN cs :
                        /\ Lower(cs[i].first_name) = f
                        /\ Len(cs[i].last_name) >= 3
                        /\ SubSeq(Lower(cs[i].last_name), 1, 3) = SubSeq(l, 1, 3)}
        IN  /\ IF Exact # {} THEN call.ret = Some(cs[MinOf(Exact)])
               ELSE IF Len(l) >= 3 /\ Pre # {}
                    THEN call.ret = Some(cs[MinOf(Pre)])
               ELSE call.ret = None
            /\ (Len(l) < 3 /\ Exact = {}) => call.ret = None

\* C11 witness: no candidate matches exactly, two different candidates
\* qualify by the prefix rule, and the call returned the first of them.
C11_Witness ==
    /\ call.fn = "find_linkedin_match" /\ call.done
    /\ Len(call.connections) = 2
    /\ call.connections[1] # call.connections[2]
    /\ \A i \in 1..2 :
         /\ ~EqualsQuery(call.connections[i], call.first_name,
                         Strip(call.last_name))
         /\ PrefixMatch(call.connections[i], Lower(call.first_name),
                        LastPrefix(Lower(call.last_name)))
    /\ Len(Strip(call.last_name)) >= 3
    /\ call.ret = Some(call.connections[1])

\* score_person and draft_email, from the response text on: the same steps.
score_person_parse(text) == json_loads(strip_fences(Strip(text)))

draft_email_parse(text) == json_loads(strip_fences(Strip(text)))

\* ------------------------------------------------------------------------
\* Calls of the response parsers on bounded texts
\* ------------------------------------------------------------------------

\* []
EmptyArray ==
    <<"[", "]">>

\* [1,2]
NumberArray ==
    <<"[", "1", ",", "2", "]">>

\* ["a"]
StringArray ==
    <<"[", QUOTE, "a", QUOTE, "]">>

\* ["a}"]
BraceStringArray ==
    <<"[", QUOTE, "a", "}", QUOTE, "]">>

\* [{"n":"A"}]
OneObjectArray ==
    <<"[", "{", QUOTE, "n", QUOTE, ":", QUOTE, "A", QUOTE, "}", "]">>

\* [{"n":"A"},{"n":"B"}]
TwoObjectArray ==
    <<"[", "{", QUOTE, "n", QUOTE, ":", QUOTE, "A", QUOTE, "}", ",", "{",
      QUOTE, "n", QUOTE, ":", QUOTE, "B", QUOTE, "}", "]">>

\* [{"n":{"k":1}},{"m":[1]}]
NestedArray ==
    <<"[", "{", QUOTE, "n", QUOTE, ":", "{", QUOTE, "k", QUOTE, ":", "1",
      "}", "}", ",", "{", QUOTE, "m", QUOTE, ":", "[", "1", "]", "}", "]">>

\* [{"n":"A"},2]
MixedArray ==
    <<"[", "{", QUOTE, "n", QUOTE, ":", QUOTE, "A", QUOTE, "}", ",", "2",
      "]">>

\* [[{"n":1}]]
ArrayOfArrays ==
    <<"[", "[", "{", QUOTE, "n", QUOTE, ":", "1", "}", "]", "]">>

\*  [ {"n":"A"} ]\n
SpacedArray ==
    <<" ", "[", " ", "{", QUOTE, "n", QUOTE, ":", QUOTE, "A", QUOTE, "}",
      " ", "]", NL>>

ValidArrays ==
    {EmptyArray, NumberArray, StringArray, BraceStringArray,
     OneObjectArray, TwoObjectArray, NestedArray, MixedArray,
     ArrayOfArrays, SpacedArray}

\* ```json\n[{"n":"A"}]\n```
FencedArray ==
    <<BACKTICK, BACKTICK, BACKTICK, "j", "s", "o", "n", NL, "[", "{",
      QUOTE, "n", QUOTE, ":", QUOTE, "A", QUOTE, "}", "]", NL, BACKTICK,
      BACKTICK, BACKTICK>>

\* ```[1]```
FencedOneLine ==
    <<BACKTICK, BACKTICK, BACKTICK, "[", "1", "]", BACKTICK, BACKTICK,
      BACKTICK>>

\* ok [1]
ProseArray ==
    <<"o", "k", " ", "[", "1", "]">>

\* sorry
NotJson ==
    <<"s", "o", "r", "r", "y">>

OtherArrayTexts == {FencedArray, FencedOneLine, ProseArray, NotJson}

\* {"n":"A"}
ObjectA ==
    <<"{", QUOTE, "n", QUOTE, ":", QUOTE, "A", QUOTE, "}">>

\* {"n":"B"}
ObjectB ==
    <<"{", QUOTE, "n", QUOTE, ":", QUOTE, "B", QUOTE, "}">>

\* {"m":{"k":1}}
ObjectNested ==
    <<"{", QUOTE, "m", QUOTE, ":", "{", QUOTE, "k", QUOTE, ":", "1", "}",
      "}">>

\* The element lists of the completions that are cut short.
ElementLists == {<<ObjectA, ObjectB>>, <<ObjectA, ObjectNested>>}

\* "[" and the first k elements separated by commas.
RECURSIVE ArrayUpTo(_, _)
ArrayUpTo(elements, k) ==
    IF k = 0 THEN <<"[">>
    ELSE ArrayUpTo(elements, k - 1) \o (IF k > 1 THEN <<",">> ELSE <<>>)
         \o elements[k]

ArrayText(elements) == ArrayUpTo(elements, Len(elements)) \o <<"]">>

\* {"s":"x"}
PlainObject ==
    <<"{", QUOTE, "s", QUOTE, ":", QUOTE, "x", QUOTE, "}">>

\* {"s":{"k":1}}
NestedObject ==
    <<"{", QUOTE, "s", QUOTE, ":", "{", QUOTE, "k", QUOTE, ":", "1", "}",
      "}">>

\* ```json\n{"s":"x"}\n```
FencedObject ==
    <<BACKTICK, BACKTICK, BACKTICK, "j", "s", "o", "n", NL, "{", QUOTE,
      "s", QUOTE, ":", QUOTE, "x", QUOTE, "}", NL, BACKTICK, BACKTICK,
      BACKTICK>>

\* {"s"
CutObject ==
    <<"{", QUOTE, "s", QUOTE>>

\* Here: 
Prose ==
    <<"H", "e", "r", "e", ":", " ">>

ObjectTexts == {PlainObject, NestedObject, FencedObject, CutObject, NumberArray}

ObjectParsers == {"score_person", "draft_email", "parse_json_response"}

ParseCall(fn, content, stop_reason, elements, prose) ==
    [fn |-> fn, content |-> content, stop_reason |-> stop_reason,
     elements |-> elements, prose |-> prose, done |-> FALSE, ret |-> None]

StopReasons == {"end_turn", "max_tokens"}

\* Whole array texts, array texts cut after any character, and object texts
\* with or without prose before them.
ParseInit ==
    /\ StoreAtRest
    /\ call \in
        {ParseCall("extract_people", t, r, <<>>, <<>>) :
            t \in ValidArrays \cup OtherArrayTexts, r \in StopReasons}
        \cup UNION {{ParseCall("extract_people", SubSeq(ArrayText(e), 1, n), r,
                               e, <<>>) :
                        n \in 1..(Len(ArrayText(e)) - 1), r \in StopReasons} :
                    e \in ElementLists}
        \cup {ParseCall(fn, pr \o t, "end_turn", <<>>, pr) :
                fn \in ObjectParsers, t \in ObjectTexts, pr \in {<<>>, Prose}}

\* extract_people returns, or raises out of json.loads.
ExtractParse ==
    /\ call.fn = "extract_people"
    /\ ~call.done
    /\ call' = [call EXCEPT
                   !.done = TRUE,
                   !.ret = Some(extract_people_parse(call.content,
                                                     call.stop_reason))]
    /\ UNCHANGED <<storeVars, now, proc, server>>

\* score_person, draft_email or parse_json_response returns or raises.
ObjectParse ==
    /\ call.fn \in ObjectParsers
    /\ ~call.done
    /\ call' = [call EXCEPT
                   !.done = TRUE,
                   !.ret = Some(CASE call.fn = "score_person" ->
                                       score_person_parse(call.content)
                                  [] call.fn = "draft_email" ->
                                       draft_email_parse(call.content)
                                  [] OTHER -> parse_json_response(call.content))]
    /\ UNCHANGED <<storeVars, now, proc, server>>

ParseNext == ExtractParse \/ ObjectParse

SpecParse == ParseInit /\ [][ParseNext]_vars

\* C12 as stated: an unfenced text that is a valid array is parsed to the
\* value it denotes, whether or not the completion is flagged as truncated.
C12_AsStated ==
    (/\ call.fn = "extract_people" /\ call.done
     /\ call.elements = <<>>
     /\ json_loads(call.content).t = "arr") =>
        call.ret = Some(json_loads(call.content))

\* The number of elements whose text lies wholly within the first n
\* characters of the array text.
CompleteCount(elements, n) ==
    Cardinality({k \in DOMAIN elements : Len(ArrayUpTo(elements, k)) <= n})

\* C13 as stated: a completion cut short parses to the array of the
\* completely received elements.
C13_AsStated ==
    (/\ call.fn = "extract_people" /\ call.done
     /\ call.elements # <<>>) =>
        call.ret =
            Some([t |-> "arr",
                  v |-> [k \in 1..CompleteCount(call.elements, Len(call.content))
                           |-> json_loads(call.elements[k])]])

\* C14 as stated: prose followed by one valid object parses to that object.
C14_AsStated ==
    LET object == SubSeq(call.content, Len(call.prose) + 1, Len(call.content)) IN
    (/\ call.fn \in ObjectParsers /\ call.done
     /\ call.prose # <<>>
     /\ json_loads(object).t = "obj") =>
        call.ret = Some(json_loads(object))

\* ------------------------------------------------------------------------
\* The retry loops around the external calls: match_person
\* (apollo_client.py) and the LLM calls of extract_people, score_person,
\* draft_email, do_research and the draft_email of research_draft.py
\* ------------------------------------------------------------------------

\* for attempt in range(3)
MAX_ATTEMPTS == 3

\* wait = 10 * (2 ** attempt) and wait = 2 ** attempt * 5
APOLLO_BACKOFF == 10
LLM_BACKOFF == 5

RECURSIVE Pow2(_)
Pow2(k) == IF k = 0 THEN 1 ELSE 2 * Pow2(k - 1)

LlmCallers ==
    {"extract_people", "score_person", "draft_email", "do_research",
     "research_draft_email"}

BackoffBase(fn) == IF fn = "match_person" THEN APOLLO_BACKOFF ELSE LLM_BACKOFF

\* What one attempt can meet. requests.post answers with a status (200 with
\* or without a person, 429, 422, 500) or raises a connection error or a
\* timeout, or the body is not JSON; client.messages.create returns a
\* response or raises RateLimitError or another API error.
Responses(fn) ==
    IF fn = "match_person"
    THEN {[kind |-> "status", status |-> 200, body |-> b] :
            b \in {"person", "no person", "not json"}}
         \cup {[kind |-> "status", status |-> st, body |-> ""] :
                 st \in {429, 422, 500}}
         \cup {[kind |-> k, status |-> 0, body |-> ""] :
                 k \in {"ConnectionError", "Timeout"}}
    ELSE {[kind |-> "response", status |-> 0, body |-> b] :
            b \in {"end_turn", "max_tokens"}}
         \cup {[kind |-> k, status |-> 0, body |-> ""] :
                 k \in {"RateLimitError", "APIError", "APIConnectionError"}}

\* The loop goes on while attempts are left.
LoopContinuesFour(attempt) == attempt < 4

LoopContinues(attempt) == attempt < MAX_ATTEMPTS

\* The attempt is answered by the rate-limit signal: status 429, or
\* anthropic.RateLimitError.
IsRateLimitOrServerError(response) ==
    \/ response.kind = "status" /\ response.status \in {429, 500}
    \/ response.kind \in {"RateLimitError", "APIError"}

IsRateLimit(response) ==
    \/ response.kind = "status" /\ response.status = 429
    \/ response.kind = "RateLimitError"

\* match_person: status 422 in the HTTPError handler.
IsValidationNever(response) == FALSE

IsValidation(response) == response.kind = "status" /\ response.status = 422

\* The attempt yields the result: a 2xx status with a JSON body, or a
\* response of the LLM.
IsSuccess(response) ==
    \/ response.kind = "status" /\ response.status = 200
                                /\ response.body # "not json"
    \/ response.kind = "response"

RetryCall(fn, payload) ==
    [fn |-> fn, payload |-> payload, attempt |-> 0, responses |-> <<>>,
     waits |-> <<>>, state |-> "running", ret |-> None, error |-> ""]

RetryInit ==
    /\ StoreAtRest
    /\ call \in {RetryCall(fn, TRUE) : fn \in LlmCallers \cup {"match_person"}}
                \cup {RetryCall("match_person", FALSE)}

\* match_person with nothing to send: returns None before the loop.
EmptyPayload ==
    /\ call.fn = "match_person"
    /\ call.state = "running"
    /\ ~call.payload
    /\ call' = [call EXCEPT !.state = "returned"]
    /\ UNCHANGED <<storeVars, now, proc, server>>

\* One turn of the loop: the attempt and what follows it. A rate-limit
\* signal sleeps and continues; 422 returns None; a result leaves the loop;
\* anything else raises out of the call.
Attempt ==
    /\ call.fn \in LlmCallers \cup {"match_person"}
    /\ call.state = "running"
    /\ call.payload
    /\ LoopContinues(call.attempt)
    /\ \E response \in Responses(call.fn) :
        LET wait == BackoffBase(call.fn) * Pow2(call.attempt)
            tried == [call EXCEPT !.responses = Append(@, response)]
        IN  IF IsRateLimit(response)
            THEN /\ call' = [tried EXCEPT !.waits = Append(@, wait),
                                          !.attempt = @ + 1]
                 /\ now' = now + wait
            ELSE /\ call' =
                      IF IsValidation(response)
                      THEN [tried EXCEPT !.state = "returned"]
                      ELSE IF IsSuccess(response)
                      THEN [tried EXCEPT !.state = "returned",
                                         !.ret = Some(response.body)]
                      ELSE [tried EXCEPT
                              !.state = "raised",
                              !.error = IF response.kind = "status"
                                        THEN "HTTPError"
                                        ELSE IF response.body = "not json"
                                        THEN "JSONDecodeError"
                                        ELSE response.kind]
                 /\ now' = now
    /\ UNCHANGED <<storeVars, proc, server>>

\* The else branch of the loop: every attempt was rate limited.
RetriesExceeded ==
    /\ call.fn \in LlmCallers \cup {"match_person"}
    /\ call.state = "running"
    /\ call.payload
    /\ ~LoopContinues(call.attempt)
    /\ call' = [call EXCEPT !.state = "raised",
                            !.error = "rate limit exceeded after 3 retries"]
    /\ UNCHANGED <<storeVars, now, proc, server>>

RetryNext == EmptyPayload \/ Attempt \/ RetriesExceeded

SpecRetry == RetryInit /\ [][RetryNext]_vars

\* The number of rate-limit signals among the responses of the call.
RateLimited == Cardinality({i \in DOMAIN call.responses :
                              IsRateLimit(call.responses[i])})

IsRetryCall == call.fn \in LlmCallers \cup {"match_person"}

\* C15: a call makes at most 3 attempts; when 3 attempts were rate limited
\* it never returns and ends by raising the retries-exceeded error; an
\* attempt that succeeds is the last one and the call returns; a call that
\* has ended makes no further attempt.
C15_Inv ==
    IsRetryCall =>
        /\ Len(call.responses) <= 3
        /\ RateLimited = 3 =>
             /\ call.state # "returned"
             /\ call.ret = None
             /\ call.state = "raised" =>
                  call.error = "rate limit exceeded after 3 retries"
        /\ \A i \in DOMAIN call.responses :
             IsSuccess(call.responses[i]) =>
                 i = Len(call.responses) /\ call.state = "returned"

C15_Step ==
    (IsRetryCall /\ call.state # "running") => call' = call

C15_AttemptCap == [](C15_Inv) /\ [][C15_Step]_vars

\* C15 witness: three rate-limited attempts ended in the retries-exceeded
\* error.
C15_Witness ==
    /\ IsRetryCall
    /\ RateLimited = 3
    /\ call.state = "raised"
    /\ call.error = "rate limit exceeded after 3 retries"

\* C16: an attempt of match_person answered with 422 is the last attempt,
\* and the call returns None without raising.
C16_ValidationIsNone ==
    (call.fn = "match_person") =>
        \A i \in DOMAIN call.responses :
            call.responses[i].status = 422 =>
                /\ i = Len(call.responses)
                /\ call.state = "returned"
                /\ call.ret = None
                /\ call.error = ""

\* C16 witness: 422 on the third attempt after two rate-limited ones.
C16_Witness ==
    /\ call.fn = "match_person"
    /\ Len(call.responses) = 3
    /\ IsRateLimit(call.responses[1]) /\ IsRateLimit(call.responses[2])
    /\ call.responses[3].status = 422
    /\ call.state = "returned"

\* An attempt that met a failure other than the rate-limit signal and 422.
IsOtherFailure(response) ==
    \/ response.status = 500
    \/ response.body = "not json"
    \/ response.kind \in {"ConnectionError", "Timeout", "APIError",
                          "APIConnectionError"}

\* C17: a failure that is neither a rate-limit signal nor a validation
\* rejection ends the call on its attempt: it is the last attempt, the call
\* has raised that failure, and no wait followed it (the waits are those
\* of the rate-limited attempts before it).
C17_OtherFailurePropagates ==
    IsRetryCall =>
        \A i \in DOMAIN call.responses :
            IsOtherFailure(call.responses[i]) =>
                /\ i = Len(call.responses)
                /\ call.state = "raised"
                /\ call.error # "rate limit exceeded after 3 retries"
                /\ call.error \in {"HTTPError", "JSONDecodeError",
                                   call.responses[i].kind}
                /\ Len(call.waits) = i - 1

\* C17 witness: a rate-limited attempt, then status 500 (or an API error)
\* raised out of the call.
C17_Witness ==
    /\ IsRetryCall
    /\ Len(call.responses) = 2
    /\ Len(call.waits) = 1
    /\ IsOtherFailure(call.responses[2])
    /\ call.responses[2].kind \in {"status", "APIError"}
    /\ call.state = "raised"

\* C18 as stated: the wait after the rate-limited attempt k is base * 2^k,
\* and a call performs at most 2 waits.
C18_AsStated ==
    IsRetryCall =>
        /\ \A k \in DOMAIN call.waits :
             call.waits[k] = BackoffBase(call.fn) * Pow2(k - 1)
        /\ Len(call.waits) <= 2

\* C19 as stated, for the discovery stage: a failure while a source is
\* processed (fetch, extraction, or a store write that fails) is recorded in
\* the run's results as an error.
C19_AsStated ==
    (proc.agent = "discovery" /\ proc.faults > 0) =>
        \E k \in DOMAIN proc.results : proc.results[k].error # ""

\* C20 as stated, for the scoring stage: after a call that failed with
\* retries exceeded on rate limiting no later prospect is processed, and the
\* run ends with a non-zero exit code.
C20_AsStated ==
    proc.agent = "score" =>
        \A k \in DOMAIN proc.results :
            proc.results[k].llm.kind = "rate limited" =>
                /\ k = Len(proc.results)
                /\ proc.exit \in {None, Some(1)}


\* ------------------------------------------------------------------------
\* server.py: the control server. One job slot (_proc, _agent_name,
\* _output_lines) guarded by _lock; HTTPServer handles one request at a
\* time; each launch starts a child process and a reader thread.
\* ------------------------------------------------------------------------

OUTPUT_TAIL == 100
MaxRuns == 2

\* body.get("agent", "enrich")
AgentOf(arg) == IF arg = None THEN "enrich" ELSE arg[1]

\* What a child prints, as the sizes of its writes to the pipe; only the
\* first launch prints more than the window of GET /status.
ShortScripts == {<<1>>}
LongScripts == {<<OUTPUT_TAIL, 1>>}
LaunchScripts(h) == IF h = 1 THEN ShortScripts \cup LongScripts ELSE ShortScripts
ExitCodes == {0, 1}

\* subprocess.Popen(...): a child that has written and exited nothing yet.
Popen(agent, script) ==
    [agent |-> agent, script |-> script, bursts |-> 0, written |-> 0,
     read |-> 0, code |-> None]

\* Popen.poll(): the exit code if the child has exited, else None; the
\* same value is then read from returncode.
Poll(children, h) == children[h].code

\* `_proc and _proc.poll() is None`
IsRunningNever(srv) == FALSE
IsRunning(srv) ==
    srv._proc # 0 /\ Poll(srv.children, srv._proc) = None

\* lst[-k:]
FirstLines(lst, k) == SubSeq(lst, 1, IF Len(lst) > k THEN k ELSE Len(lst))
LastLines(lst, k) ==
    SubSeq(lst, IF Len(lst) > k THEN Len(lst) - k + 1 ELSE 1, Len(lst))

NoRequest == [fn |-> "none"]
Response(method, path, status, body) ==
    [fn |-> "request", method |-> method, path |-> path, status |-> status,
     body |-> body]

ServerInit ==
    /\ people = <<>>
    /\ outreach = <<>>
    /\ sources = <<>>
    /\ enrichment_log = <<>>
    /\ now = 0
    /\ proc = Idle
    /\ call = NoRequest
    /\ server = [_proc |-> 0, _agent_name |-> Null, _output_lines |-> <<>>,
                 children |-> <<>>, readers |-> <<>>]

\* Handler.do_POST
do_POST(path, arg) ==
    /\ IF path # "/run"
       THEN /\ call' = Response("POST", path, 404, [error |-> "Not found"])
            /\ UNCHANGED server
       ELSE IF IsRunning(server)
       THEN /\ call' = Response("POST", path, 409,
                          [error |-> "Agent already running",
                           agent |-> server._agent_name])
            /\ UNCHANGED server
       ELSE /\ Len(server.children) < MaxRuns
            /\ \E script \in LaunchScripts(Len(server.children) + 1) :
                  server' =
                    [server EXCEPT
                       !._proc = Len(server.children) + 1,
                       !.children =
                          Append(server.children, Popen(AgentOf(arg), script)),
                       !._output_lines = <<>>,
                       !._agent_name = AgentOf(arg),
                       !.readers =
                          Append(@, [agent |-> AgentOf(arg), stream |-> 0,
                                     line |-> None])]
            /\ call' = Response("POST", path, 200,
                          [status |-> "started", agent |-> AgentOf(arg)])
    /\ UNCHANGED <<storeVars, now, proc>>

\* Handler.do_GET
do_GET(path) ==
    /\ IF path # "/status"
       THEN /\ call' = Response("GET", path, 404, [error |-> "Not found"])
            /\ UNCHANGED server
       ELSE LET running == IsRunning(server)
                exit_code ==
                    IF server._proc # 0 /\ ~running
                    THEN Poll(server.children, server._proc) ELSE None
            IN  /\ UNCHANGED server
                /\ call' = Response("GET", path, 200,
                              [running |-> running,
                               agent |-> server._agent_name,
                               exit_code |-> exit_code,
                               output |-> LastLines(server._output_lines,
                                                    OUTPUT_TAIL)])
    /\ UNCHANGED <<storeVars, now, proc>>

\* The child of launch h writes its next lines to the pipe.
ChildWrite(h) ==
    /\ server.children[h].code = None
    /\ server.children[h].bursts < Len(server.children[h].script)
    /\ server' =
         [server EXCEPT
            ![ "children" ][h].bursts = @ + 1,
            ![ "children" ][h].written =
               @ + server.children[h].script[server.children[h].bursts + 1]]
    /\ call' = NoRequest
    /\ UNCHANGED <<storeVars, now, proc>>

\* The child of launch h exits after its last write.
ChildExit(h, code) ==
    /\ server.children[h].code = None
    /\ server.children[h].bursts = Len(server.children[h].script)
    /\ server' = [server EXCEPT ![ "children" ][h].code = Some(code)]
    /\ call' = NoRequest
    /\ UNCHANGED <<storeVars, now, proc>>

\* reader(): `for line in _proc.stdout` evaluates the global _proc when the
\* thread first runs.
ReaderOpen(i) ==
    /\ server.readers[i].stream = 0
    /\ server' = [server EXCEPT ![ "readers" ][i].stream = server._proc]
    /\ call' = NoRequest
    /\ UNCHANGED <<storeVars, now, proc>>

\* reader(): the next line of the stream, stripped on the right, when it is
\* the only line waiting.
ReaderNext(i) ==
    LET h == server.readers[i].stream IN
    /\ h # 0
    /\ server.readers[i].line = None
    /\ server.children[h].written - server.children[h].read = 1
    /\ server' =
         [server EXCEPT
            ![ "children" ][h].read = @ + 1,
            ![ "readers" ][i].line =
               Some([run |-> h, n |-> server.children[h].read + 1])]
    /\ call' = NoRequest
    /\ UNCHANGED <<storeVars, now, proc>>

\* reader(): `with _lock: _output_lines.append(stripped)`
ReaderAppend(i) ==
    /\ server.readers[i].line # None
    /\ server' =
         [server EXCEPT
            !._output_lines = Append(@, server.readers[i].line[1]),
            ![ "readers" ][i].line = None]
    /\ call' = NoRequest
    /\ UNCHANGED <<storeVars, now, proc>>

\* reader(): when several lines are waiting, the iterations for all but the
\* last of them, taken without another thread running in between.
ReaderDrain(i) ==
    LET h == server.readers[i].stream
        from == server.children[h].read
        upto == server.children[h].written - 1
    IN  /\ h # 0
        /\ server.readers[i].line = None
        /\ upto > from
        /\ server' =
             [server EXCEPT
                ![ "children" ][h].read = upto,
                !._output_lines =
                   @ \o [k \in 1..(upto - from) |-> [run |-> h, n |-> from + k]]]
        /\ call' = NoRequest
        /\ UNCHANGED <<storeVars, now, proc>>

PostPaths == {"/run", "/stop"}
GetPaths == {"/status", "/"}
AgentArgs == {None, Some("score")}

ServerNext ==
    \/ \E path \in PostPaths, arg \in AgentArgs : do_POST(path, arg)
    \/ \E path \in GetPaths : do_GET(path)
    \/ \E h \in 1..Len(server.children) : ChildWrite(h)
    \/ \E h \in 1..Len(server.children), code \in ExitCodes : ChildExit(h, code)
    \/ \E i \in 1..Len(server.readers) : ReaderOpen(i)
    \/ \E i \in 1..Len(server.readers) : ReaderNext(i)
    \/ \E i \in 1..Len(server.readers) : ReaderDrain(i)
    \/ \E i \in 1..Len(server.readers) : ReaderAppend(i)

SpecServer == ServerInit /\ [][ServerNext]_vars

Alive(srv) == {h \in 1..Len(srv.children) : srv.children[h].code = None}

\* C21: at most one launched process is alive at a time; POST /run while
\* the current process has not exited starts nothing, leaves the job slot
\* unchanged and answers 409 with the active agent's name; POST /run with no
\* live process starts one, makes it the current job and answers 200.
C21_AtMostOne == Cardinality(Alive(server)) <= 1
C21_Post ==
    (call'.fn = "request" /\ call'.method = "POST" /\ call'.path = "/run")
       => IF Alive(server) # {}
          THEN /\ server' = server
               /\ call'.status = 409
               /\ call'.body.agent = server.children[server._proc].agent
               /\ server._proc \in Alive(server)
          ELSE /\ call'.status = 200
               /\ Len(server'.children) = Len(server.children) + 1
               /\ Alive(server') = {server'._proc}
               /\ server'._proc = Len(server'.children)
               /\ server'.children[server'._proc].agent = call'.body.agent
C21_Exclusion == [](C21_AtMostOne) /\ [][C21_Post]_vars

\* A conflict was answered while the second launch was alive.
C21_Witness ==
    /\ call.fn = "request" /\ call.status = 409
    /\ Len(server.children) = 2
    /\ Alive(server) = {2}

\* The answer to the GET /status request just handled.
IsStatusAnswer ==
    call.fn = "request" /\ call.method = "GET" /\ call.path = "/status"

\* C22: GET /status answers with running true iff a process was started and
\* has not exited, exit_code null while running or before any start and the
\* exit code afterwards, and output the last min(100, n) lines, in order, of
\* the n lines in the buffer of the current run.
C22_Snapshot ==
    IsStatusAnswer =>
        LET started == server._proc # 0
            exited == started /\ server.children[server._proc].code # None
            out == call.body.output
            n == Len(server._output_lines)
        IN  /\ call.body.running = (started /\ ~exited)
            /\ call.body.exit_code =
                 (IF exited THEN server.children[server._proc].code ELSE None)
            /\ call.body.agent = server._agent_name
            /\ Len(out) = (IF n < OUTPUT_TAIL THEN n ELSE OUTPUT_TAIL)
            /\ \A i \in 1..Len(out) :
                   out[i] = server._output_lines[n - Len(out) + i]

\* A status answer after the child exited with more lines buffered than the
\* window holds.
C22_Witness ==
    /\ IsStatusAnswer
    /\ Len(server._output_lines) > OUTPUT_TAIL
    /\ call.body.exit_code = Some(1)
    /\ ~call.body.running

\* ------------------------------------------------------------------------
\* Preview runs: every stage started with --dry-run on one store
\* ------------------------------------------------------------------------

\* A freshly discovered person, or an enriched one scored above the drafting
\* threshold eight days before the run.
PreviewRows(i) ==
    {PersonRow(i, "discovered", "", "", "", <<"c">>),
     Scored(PersonRow(i, "enriched", "old", "old", "old", <<"c">>),
            [s |-> ScoreHour - (SCORE_STALE_DAYS + 1) * HoursPerDay, u |-> 0])}

\* The sources were never checked, so each is due whatever the clock says.
PreviewInit ==
    /\ \E n \in 1..MaxPeople :
        /\ people \in [1..n -> UNION {PreviewRows(i) : i \in 1..n}]
        /\ \A i \in 1..n : people[i] \in PreviewRows(i)
    /\ outreach = <<>>
    /\ \E n \in 1..MaxSources :
        sources = [i \in 1..n |-> SourceRow(i, TRUE, 1, None)]
    /\ enrichment_log = <<>>
    /\ now \in ScoreMinutes
    /\ proc = Idle
    /\ call = [fn |-> "none"]
    /\ server = ServerOff

PreviewNext ==
    \/ \E person_id \in 0..Len(people), connections \in EnrichConnections :
          EnrichStart(person_id, "", TRUE, connections)
    \/ EnrichPerson
    \/ EnrichExit
    \/ \E person_id \in 0..Len(people), force \in BOOLEAN, templates \in TemplateSets :
          DraftStart(person_id, "", DEFAULT_MIN_SCORE, TRUE, force, templates)
    \/ DraftPerson
    \/ DraftExit
    \/ \E person_id \in 1..Len(people), force \in BOOLEAN, templates \in TemplateSets :
          ResearchStart(person_id, "warm", "", TRUE, force, templates)
    \/ ResearchDraft
    \/ \E source_id \in 0..Len(sources) : DiscoveryStart(source_id, TRUE)
    \/ ProcessSource
    \/ DiscoveryExit
    \/ \E person_id \in 0..Len(people), force \in BOOLEAN :
          ScoreStart(person_id, "", TRUE, force)
    \/ ScorePerson
    \/ ScoreExit

SpecPreview == PreviewInit /\ [][PreviewNext]_vars

\* C23: no step of a stage process started with --dry-run changes the
\* people, sources, outreach or enrichment_log table, whatever the external
\* calls return or raise.
C23_PreviewWritesNothing ==
    [][(proc'.agent # "idle" /\ proc'.dry_run) => UNCHANGED storeVars]_vars

\* A preview enrichment that found data to write for a discovered person.
C23_Witness ==
    /\ proc.agent = "enrich"
    /\ proc.dry_run
    /\ \E k \in DOMAIN proc.results :
         /\ proc.results[k].apollo
         /\ DOMAIN proc.results[k].updates # {}
         /\ people[proc.results[k].person_id].status = "discovered"
    /\ enrichment_log = <<>>

\* C24 as stated, for the discovery stage: the process exits with code 0 iff
\* no source failed and no insert of an extracted person failed (every
\* extracted person was inserted or skipped as a duplicate).
C24_AsStated ==
    (proc.agent = "discovery" /\ proc.exit # None) =>
        (proc.exit = Some(0)
           <=> \A k \in DOMAIN proc.results :
                  /\ proc.results[k].error = ""
                  /\ proc.dry_run
                       \/ proc.results[k].inserted + proc.results[k].skipped
                            = proc.results[k].extracted)

\* C25 as stated, for the scoring stage: a run with --person-id works on
\* exactly that prospect, whatever its status and its scored_at, with or
\* without --force.
C25_AsStated ==
    (proc.agent = "score" /\ proc.person_id # 0) =>
        /\ Len(proc.queue) = 1
        /\ proc.queue[1].id = proc.person_id

\* The columns a scoring writes.
ScoreColumns ==
    {"priority_score", "priority_reasons", "shared_background", "scored_at"}

\* C26: a non-preview scoring of a prospect that succeeds writes
\* priority_score, priority_reasons, shared_background and scored_at of that
\* prospect together and nothing else: its other columns, the other
\* prospects and the other tables are unchanged; a scoring that fails, or a
\* preview, changes nothing.
C26_Step ==
    (/\ proc.agent = "score"
     /\ proc'.agent = "score"
     /\ Len(proc'.results) = Len(proc.results) + 1)
    => LET res == proc'.results[Len(proc'.results)] IN
       /\ UNCHANGED <<outreach, sources, enrichment_log>>
       /\ DOMAIN people' = DOMAIN people
       /\ \A i \in DOMAIN people :
            IF people[i].id = res.id /\ res.outcome = "scored" /\ ~proc.dry_run
            THEN /\ \A col \in DOMAIN people[i] \ ScoreColumns :
                       people'[i][col] = people[i][col]
                 /\ people'[i].priority_score = Some(res.llm.total_score)
                 /\ people'[i].priority_reasons # None
                 /\ people'[i].shared_background # Null
                 /\ people'[i].scored_at = isoformat(Clock(now))
            ELSE people'[i] = people[i]
C26_ScoringFrame == [][C26_Step]_vars

\* A prospect already drafted was scored by this run and kept its status.
C26_Witness ==
    /\ proc.agent = "score"
    /\ ~proc.dry_run
    /\ \E k \in DOMAIN proc.results :
         /\ proc.results[k].outcome = "scored"
         /\ people[proc.results[k].id].status = "outreach_drafted"
         /\ people[proc.results[k].id].scored_at = isoformat(Clock(now))
         /\ people[proc.results[k].id].priority_score = Some(100)

\* C27 as stated, the transition of the basic drafting stage: in a run
\* without --person-id that is not a preview, a turn of the loop that counts the prospect as drafted
\* adds exactly one outreach row for it and sets its status to
\* outreach_drafted; a turn that does not (the draft failed or was skipped)
\* leaves its status and its outreach rows as they were.
C27_Step ==
    (/\ proc.agent = "draft"
     /\ proc'.agent = "draft"
     /\ proc.person_id = 0
     /\ ~proc.dry_run
     /\ proc'.done = proc.done + 1)
    => LET pid == proc.queue[proc.done + 1].id IN
       IF proc'.drafted = proc.drafted + 1
       THEN /\ Cardinality(RowsOf(outreach', pid))
                 = Cardinality(RowsOf(outreach, pid)) + 1
            /\ people'[pid].status = "outreach_drafted"
       ELSE /\ RowsOf(outreach', pid) = RowsOf(outreach, pid)
            /\ people'[pid].status = people[pid].status
C27_AsStated == [][C27_Step]_vars

\* C28 as stated: in every state a prospect with a non-null priority_score
\* has status enriched or outreach_drafted, never discovered.
C28_AsStated ==
    \A i \in DOMAIN people :
        people[i].priority_score # None
            => people[i].status \in {"enriched", "outreach_drafted"}

\* C28 amended: while the scoring runs are untargeted (no --person-id), a
\* prospect with a non-null priority_score has status enriched or
\* outreach_drafted; a targeted run scores its prospect whatever the status.
C28_Amended ==
    (proc.agent = "score" /\ proc.person_id = 0) =>
        \A i \in DOMAIN people :
            people[i].priority_score # None
                => people[i].status \in {"enriched", "outreach_drafted"}

\* An untargeted run scored the enriched prospect and left the discovered
\* one unscored.
C28_Witness ==
    /\ proc.agent = "score"
    /\ proc.person_id = 0
    /\ ~proc.dry_run
    /\ \E i \in DOMAIN people :
         people[i].status = "discovered" /\ people[i].priority_score = None
    /\ \E k \in DOMAIN proc.results :
         /\ proc.results[k].outcome = "scored"
         /\ people[proc.results[k].id].scored_at = isoformat(Clock(now))

\* The start of an untargeted enrichment run.
DefaultEnrichStart ==
    proc = Idle /\ proc'.agent = "enrich" /\ proc'.person_id = 0

\* A turn of the loop of an enrichment run that is not a preview.
EnrichTurn ==
    /\ proc.agent = "enrich"
    /\ proc'.agent = "enrich"
    /\ ~proc.dry_run
    /\ Len(proc'.results) = Len(proc.results) + 1

\* The faults of a turn that are not the people update: a lookup that
\* raised (it is in the result's error) and log rows that were not written
\* (each turn writes two).
OtherFaults(res) ==
    (IF \E k \in DOMAIN res.error : res.error[k] # "update" THEN 1 ELSE 0)
    + (2 - (Len(enrichment_log') - Len(enrichment_log)))

\* C29: an untargeted enrichment run selects exactly the prospects with
\* status discovered (of the tag, when one is given); every prospect a
\* non-preview run processes has status enriched afterwards unless its
\* people update failed, whether or not a lookup supplied data.
C29_Step ==
    /\ DefaultEnrichStart =>
          \A i \in DOMAIN people :
              (\E k \in DOMAIN proc'.queue : proc'.queue[k] = people[i])
              <=> /\ people[i].status = "discovered"
                  /\ proc'.for_tag # "" => people[i].for_tag = proc'.for_tag
    /\ EnrichTurn =>
          LET res == proc'.results[Len(proc'.results)] IN
          (proc'.faults - proc.faults = OtherFaults(res))
              => people'[res.person_id].status = "enriched"
C29_EnrichmentCompletes == [][C29_Step]_vars

\* An untargeted run processed a discovered prospect for which neither
\* lookup had anything, and it is enriched now.
C29_Witness ==
    /\ proc.agent = "enrich"
    /\ proc.person_id = 0
    /\ ~proc.dry_run
    /\ \E k \in DOMAIN proc.results :
         /\ ~proc.results[k].apollo
         /\ ~proc.results[k].linkedin
         /\ proc.results[k].error = <<>>
         /\ proc.queue[k].status = "discovered"
         /\ people[proc.results[k].person_id].status = "enriched"

\* ------------------------------------------------------------------------
\* One run of any stage, preview or not, on one store
\* ------------------------------------------------------------------------

StagesNext ==
    \/ \E dry_run \in BOOLEAN : EnrichStart(0, "", dry_run, None)
    \/ EnrichPerson
    \/ EnrichExit
    \/ \E dry_run \in BOOLEAN :
          DraftStart(0, "", DEFAULT_MIN_SCORE, dry_run, FALSE, Tags)
    \/ DraftPerson
    \/ DraftExit
    \/ \E person_id \in 1..Len(people), dry_run \in BOOLEAN :
          ResearchStart(person_id, "warm", "", dry_run, FALSE, Tags)
    \/ ResearchDraft
    \/ \E source_id \in 0..Len(sources), dry_run \in BOOLEAN :
          DiscoveryStart(source_id, dry_run)
    \/ ProcessSource
    \/ DiscoveryExit
    \/ \E dry_run \in BOOLEAN : ScoreStart(0, "", dry_run, FALSE)
    \/ ScorePerson
    \/ ScoreExit

SpecStages == PreviewInit /\ [][StagesNext]_vars

\* A turn of the loop of a discovery run.
DiscoveryTurn ==
    /\ proc.agent = "discovery"
    /\ proc'.agent = "discovery"
    /\ Len(proc'.results) = Len(proc.results) + 1

\* C30: the sources table changes only in a turn of a discovery run that is
\* not a preview and whose fetch and extraction both succeeded, and then
\* only last_checked_at and last_people_count of the source processed are
\* written; after a turn that failed at the fetch or the extraction, or a
\* preview turn, the table is as before and the source is still due.
C30_Step ==
    /\ sources' # sources =>
          /\ DiscoveryTurn
          /\ ~proc.dry_run
          /\ proc'.results[Len(proc'.results)].error = ""
          /\ DOMAIN sources' = DOMAIN sources
          /\ \A i \in DOMAIN sources :
                IF sources[i].id = proc.queue[Len(proc'.results)].id
                THEN sources'[i] =
                        [sources[i] EXCEPT
                           !.last_checked_at = Some(now),
                           !.last_people_count =
                               proc'.results[Len(proc'.results)].extracted]
                ELSE sources'[i] = sources[i]
    /\ (/\ DiscoveryTurn
        /\ proc.dry_run \/ proc'.results[Len(proc'.results)].error # "")
       => /\ sources' = sources
          /\ proc.source_id = 0 =>
                \E k \in DOMAIN (get_due_sources(0))' :
                    (get_due_sources(0))'[k].id
                        = proc.queue[Len(proc'.results)].id
C30_SourceFrame == [][C30_Step]_vars

\* A run that is not a preview failed on its first source, which was left
\* as it was, and stamped its second.
C30_Witness ==
    /\ proc.agent = "discovery"
    /\ ~proc.dry_run
    /\ Len(proc.results) = 2
    /\ proc.results[1].error # ""
    /\ proc.results[2].error = ""
    /\ sources[proc.queue[1].id].last_checked_at = None
    /\ sources[proc.queue[2].id].last_checked_at = Some(now)
    /\ sources[proc.queue[2].id].last_people_count = proc.results[2].extracted

\* ------------------------------------------------------------------------
\* Terminated runs and their re-runs
\* ------------------------------------------------------------------------

\* The turns of its loop a run has been through.
Turns(p) == IF p.agent = "draft" THEN p.done ELSE Len(p.results)

\* The process of a stage is terminated between two entities (in the pause
\* after a turn that is not the last): no store call is in flight and
\* nothing is written. What the run had read and done is kept in call, with
\* the store as the process left it; the re-run comes half an hour later
\* and is left to end by itself.
Terminate ==
    /\ proc.agent \in {"enrich", "score", "draft"}
    /\ proc.exit = None
    /\ Turns(proc) \in 1..(Len(proc.queue) - 1)
    /\ call.fn # "terminated"
    /\ proc' = Idle
    /\ call' = [fn |-> "terminated", agent |-> proc.agent,
                dry_run |-> proc.dry_run, queue |-> proc.queue,
                turns |-> Turns(proc),
                people |-> people, outreach |-> outreach]
    /\ now' = now + MinutesPerHour \div 2
    /\ UNCHANGED <<storeVars, server>>

\* The store before the first run: prospects freshly discovered, or enriched
\* and scored above the drafting threshold eight days earlier; no drafts yet.
ResumeInit ==
    /\ \E n \in 1..MaxPeople :
        /\ people \in [1..n -> UNION {PreviewRows(i) : i \in 1..n}]
        /\ \A i \in 1..n : people[i] \in PreviewRows(i)
    /\ outreach = <<>>
    /\ sources = <<>>
    /\ enrichment_log = <<>>
    /\ now = ScoreHour * MinutesPerHour
    /\ proc = Idle
    /\ call = [fn |-> "none"]
    /\ server = ServerOff

\* A run of one stage with its default selection, preview or not; after a
\* termination the same stage is run again, not as a preview.
MayRun(agent, dry_run) ==
    call.fn = "terminated" => call.agent = agent /\ ~dry_run

ResumeNext ==
    \/ \E dry_run \in BOOLEAN :
          /\ MayRun("enrich", dry_run)
          /\ EnrichStart(0, "", dry_run, None)
    \/ EnrichPerson
    \/ EnrichExit
    \/ \E dry_run \in BOOLEAN :
          /\ MayRun("score", dry_run)
          /\ ScoreStart(0, "", dry_run, FALSE)
    \/ ScorePerson
    \/ ScoreExit
    \/ \E dry_run \in BOOLEAN :
          /\ MayRun("draft", dry_run)
          /\ DraftStart(0, "", DEFAULT_MIN_SCORE, dry_run, FALSE, Tags)
    \/ DraftPerson
    \/ DraftExit
    \/ Terminate

SpecResume == ResumeInit /\ [][ResumeNext]_vars

\* A stage process is in its loop.
InLoop == proc.agent \in {"enrich", "score", "draft"} /\ proc.exit = None

\* The re-run of a terminated run has read its entities and not begun.
Resumed ==
    /\ call.fn = "terminated"
    /\ InLoop
    /\ proc.agent = call.agent
    /\ Turns(proc) = 0

\* Something of the entity a run read as row q has been written since: its
\* record differs from the row read, or it has an outreach row.
Committed(q) == people[q.id] # q \/ ExistingOutreach(q.id) # {}

\* C31: resumability. While a run with the default selection is in its
\* loop, every entity it has not come to is as it was read (record unchanged,
\* no outreach row); a termination between entities leaves the store as it
\* is, so what was committed stays; and the re-run of the same stage, without
\* --force, reads exactly the entities of the terminated run of which nothing
\* was committed (those not reached, and those whose turn wrote nothing) and
\* none of the committed ones.
C31_Resumable ==
    /\ InLoop =>
          \A k \in (Turns(proc) + 1)..Len(proc.queue) :
              ~Committed(proc.queue[k])
    /\ Resumed =>
          /\ people = call.people
          /\ outreach = call.outreach
          /\ \A k \in DOMAIN call.queue :
                (\E j \in DOMAIN proc.queue :
                     proc.queue[j].id = call.queue[k].id)
                <=> ~Committed(call.queue[k])
          /\ \A j \in DOMAIN proc.queue :
                \E k \in DOMAIN call.queue :
                    call.queue[k].id = proc.queue[j].id
          /\ \A k \in DOMAIN call.queue :
                k > call.turns => ~Committed(call.queue[k])

\* A scoring run was terminated after scoring the first of two stale
\* prospects; the re-run half an hour later reads the second one only.
C31_Witness ==
    /\ Resumed
    /\ proc.agent = "score"
    /\ ~call.dry_run
    /\ Len(call.queue) = 2
    /\ call.turns = 1
    /\ people[call.queue[1].id].scored_at # call.queue[1].scored_at
    /\ Len(proc.queue) = 1
    /\ proc.queue[1].id = call.queue[2].id
    /\ people[call.queue[1].id].scored_at # isoformat(Clock(now))

\* The people update of an enrichment turn failed: a fault of the turn that
\* is neither a lookup that raised nor a log row that was not written.
UpdateFailed(res) == proc'.faults - proc.faults > OtherFaults(res)

\* What a turn of a run that is not a preview does when no log insert fails
\* is what it does when one fails: unless the people update itself failed,
\* the prospect's record gets the status enriched and the entries of updates
\* and nothing else, and the result's error names the lookup or the update.
LoggingIsBestEffort(res) ==
    /\ ~UpdateFailed(res) =>
          people' = UpdatePerson(people, res.person_id,
                                 ("status" :> "enriched") @@ res.updates)
    /\ \A k \in DOMAIN res.error :
          res.error[k] \in {"HTTPError", "retries exceeded", "update"}

\* C32 as stated: in a turn of an enrichment run that is not a preview, a log
\* row that cannot be inserted does not prevent the prospect's update, does
\* not change the fields written and puts no error into the prospect's
\* result; a failure of the prospect's own update is recorded as an error in
\* its result.
C32_Step ==
    EnrichTurn =>
        LET res == proc'.results[Len(proc'.results)] IN
        /\ LoggingIsBestEffort(res)
        /\ UpdateFailed(res) => \E k \in DOMAIN res.error : res.error[k] = "update"
C32_AsStated == [][C32_Step]_vars

\* The tag whose templates a research-augmented run loads.
ResearchTag(p) == IF p.for_tag # "" THEN p.for_tag ELSE p.queue[1].for_tag

\* C33 as stated: a drafting run that comes to a prospect whose tag has no
\* introductory_email.md stops there with a non-zero exit code. On the basic
\* path no later prospect of the queue is taken up and the exit code is not
\* 0; on the research path (the prospect was found and is to be drafted) the
\* exit code is 1 and no LLM call was made.
C33_AsStated ==
    /\ proc.agent = "draft" =>
          \A k \in 1..proc.done :
              proc.queue[k].for_tag \notin proc.templates
                  => proc.done = k /\ proc.exit # Some(0)
    /\ (/\ proc.agent = "research_draft"
        /\ proc.queue # <<>>
        /\ proc.force \/ ExistingOutreach(proc.queue[1].id) = {}
        /\ ResearchTag(proc) \notin proc.templates)
       => proc.exit = Some(1) /\ proc.llm_calls = <<>>

\* C34: a discovery run with --source-id reads that source when it is
\* active, whatever its last_checked_at and check_frequency_hours, and no
\* other source; when it is not active the run has nothing to do.
C34_SourceOverride ==
    (proc.agent = "discovery" /\ proc.source_id # 0 /\ proc.results = <<>>) =>
        /\ Len(proc.queue) <= 1
        /\ \A i \in DOMAIN sources :
              (\E k \in DOMAIN proc.queue : proc.queue[k] = sources[i])
              <=> sources[i].id = proc.source_id /\ sources[i].is_active

\* A run for one hourly source checked ten minutes ago reads it, and leaves
\* out the other source, which was never checked.
C34_Witness ==
    /\ proc.agent = "discovery"
    /\ proc.source_id # 0
    /\ proc.results = <<>>
    /\ Len(proc.queue) = 1
    /\ proc.queue[1].id = proc.source_id
    /\ proc.queue[1].last_checked_at = Some(now - 10)
    /\ proc.queue[1].check_frequency_hours = 1
    /\ \E i \in DOMAIN sources :
          sources[i].id # proc.source_id /\ sources[i].last_checked_at = None

\* C35 as stated: in every state a prospect that has an outreach row has
\* status outreach_drafted.
C35_AsStated ==
    \A i \in DOMAIN people :
        ExistingOutreach(people[i].id) # {}
            => people[i].status = "outreach_drafted"

\* C36 as stated: every line in the output buffer of the control server was
\* printed by the process of the current run.
C36_AsStated ==
    server # ServerOff =>
        \A k \in DOMAIN server._output_lines :
            server._output_lines[k].run = server._proc

\* The people-data lookup of the k-th prospect of an enrichment run raised.
LookupRaised(k) ==
    \E e \in DOMAIN proc.results[k].error :
        proc.results[k].error[e] \in {"HTTPError", "retries exceeded"}

\* The people updates of an enrichment run that failed so far: its faults
\* that are neither a lookup that raised nor a log row not written (the log
\* was empty before the run, and each turn writes two rows).
UpdateFailures ==
    proc.faults
    - Cardinality({k \in DOMAIN proc.results : LookupRaised(k)})
    - (2 * Len(proc.results) - Len(enrichment_log))

\* An untargeted enrichment run, of all tags, would read the prospect now.
SelectedAgain(pid) ==
    LET again == get_people(0, "") IN
    \E j \in DOMAIN again : again[j].id = pid

\* C37: in an enrichment run that is not a preview and in which no people
\* update failed, a prospect whose people-data lookup raised (an HTTP error
\* or retries exceeded) has status enriched after its turn and would not be
\* read by an untargeted enrichment run; its result carries the error, and
\* the process ends with exit code 1.
C37_LookupErrorAdvances ==
    (proc.agent = "enrich" /\ ~proc.dry_run /\ UpdateFailures = 0) =>
        \A k \in DOMAIN proc.results :
            LookupRaised(k) =>
                /\ people[proc.results[k].person_id].status = "enriched"
                /\ ~SelectedAgain(proc.results[k].person_id)
                /\ proc.exit \in {None, Some(1)}

\* A discovered prospect whose lookup ran out of retries, and for which
\* there was nothing else to write, is enriched; the run has ended with 1.
C37_Witness ==
    /\ proc.agent = "enrich"
    /\ ~proc.dry_run
    /\ proc.exit = Some(1)
    /\ UpdateFailures = 0
    /\ \E k \in DOMAIN proc.results :
          /\ proc.results[k].error = <<"retries exceeded">>
          /\ DOMAIN proc.results[k].updates = {}
          /\ proc.queue[k].status = "discovered"
          /\ people[proc.results[k].person_id].status = "enriched"

\* ------------------------------------------------------------------------
\* Repeated enrichment passes over one prospect
\* ------------------------------------------------------------------------

\* score_person: is_first_degree, the marker searched in the context.
is_first_degree(person) == Contains(person.context, <<MARKER>>)

\* The context a prospect is discovered with: whatever text the extraction
\* returned, possibly empty or with white space at either end.
OriginalContexts ==
    {<<>>, <<"c">>, <<"c", " ", "d">>, <<" ", "c">>, <<NL, "c">>,
     <<"c", " ">>, <<" ">>}

\* One prospect as discovered; call keeps the context it was discovered
\* with and counts the enrichment processes that have ended.
MarkerInit ==
    /\ \E c \in OriginalContexts :
          /\ people = <<PersonRow(1, "discovered", "", "", "", c)>>
          /\ call = [fn |-> "discovered", context |-> c, runs |-> 0]
    /\ outreach = <<>>
    /\ sources = <<>>
    /\ enrichment_log = <<>>
    /\ now = 0
    /\ proc = Idle
    /\ server = ServerOff

\* The process has exited; the next one can be started.
ProcessEnds ==
    /\ proc # Idle
    /\ proc.exit # None
    /\ proc' = Idle
    /\ call' = [call EXCEPT !.runs = @ + 1]
    /\ UNCHANGED <<storeVars, now, server>>

\* MaxRuns enrichment runs for the prospect, one after the other, preview
\* or not, with or without a connections export; the people-data lookup
\* finds nobody.
MarkerNext ==
    \/ /\ call.runs < MaxRuns
       /\ \E dry_run \in BOOLEAN, connections \in EnrichConnections :
             EnrichStart(1, "", dry_run, connections)
    \/ /\ EnrichPerson
       /\ ~proc'.results[Len(proc'.results)].apollo
       /\ \A e \in DOMAIN proc'.results[Len(proc'.results)].error :
             proc'.results[Len(proc'.results)].error[e] = "update"
    \/ EnrichExit
    \/ ProcessEnds

SpecMarker == MarkerInit /\ [][MarkerNext]_vars

\* The occurrences of the marker in a context, and the text before the
\* first.
MarkerPlaces(context) == {i \in DOMAIN context : context[i] = MARKER}

Preceding(context) ==
    SubSeq(context, 1, (CHOOSE i \in MarkerPlaces(context) :
                           \A j \in MarkerPlaces(context) : i <= j) - 1)

\* The running process has had a turn with an offline-contact match that
\* was not a preview and whose people update did not fail.
MatchedTurn ==
    /\ proc.agent = "enrich"
    /\ ~proc.dry_run
    /\ \E k \in DOMAIN proc.results :
          /\ proc.results[k].linkedin
          /\ \A e \in DOMAIN proc.results[k].error :
                proc.results[k].error[e] # "update"

\* The marker is in the context at most once and scoring's flag says
\* whether it is there; the context is as discovered as long as the marker
\* is not there, and after a matched turn it is there.
MarkedOnce ==
    /\ \A i \in DOMAIN people :
          /\ Cardinality(MarkerPlaces(people[i].context)) <= 1
          /\ is_first_degree(people[i])
                <=> Cardinality(MarkerPlaces(people[i].context)) = 1
          /\ ~is_first_degree(people[i]) => people[i].context = call.context
    /\ MatchedTurn => Cardinality(MarkerPlaces(people[1].context)) = 1

\* C38 as stated: after any number of enrichment passes with an
\* offline-contact match the context holds the marker exactly once, the text
\* before the marker is the context the prospect was discovered with
\* (followed by the separating space, when it is not empty), and scoring's
\* first-degree flag is set iff the marker is in the context.
C38_AsStated ==
    /\ MarkedOnce
    /\ \A i \in DOMAIN people :
          is_first_degree(people[i]) =>
              Preceding(people[i].context) =
                  (IF call.context = <<>> THEN <<>>
                   ELSE call.context \o <<" ">>)

\* C38 amended: as stated, except that the text before the marker is the
\* discovered context without its leading white space (followed by the
\* separating space, when anything is left of it).
C38_Amended ==
    /\ MarkedOnce
    /\ \A i \in DOMAIN people :
          is_first_degree(people[i]) =>
              Preceding(people[i].context) =
                  (IF LStrip(call.context) = <<>> THEN <<>>
                   ELSE LStrip(call.context) \o <<" ">>)

\* The prospect was matched in two passes; its context is the
\* discovered one, the separating space and the marker.
C38_Witness ==
    /\ Cardinality({j \in DOMAIN enrichment_log :
                       /\ enrichment_log[j].source = "linkedin_csv"
                       /\ enrichment_log[j].result # None}) = 2
    /\ call.context = <<"c", " ", "d">>
    /\ people[1].context = <<"c", " ", "d", " ", MARKER>>
    /\ is_first_degree(people[1])

\* ------------------------------------------------------------------------
\* Discovery and the rows already in the people table
\* ------------------------------------------------------------------------

\* The columns of a prospect that the later stages fill.
Untouched(before, after) ==
    /\ after.id = before.id
    /\ after.key = before.key
    /\ after.status = before.status
    /\ after.email = before.email
    /\ after.linkedin = before.linkedin
    /\ after.title = before.title
    /\ after.context = before.context
    /\ after.priority_score = before.priority_score
    /\ after.scored_at = before.scored_at

\* C39: a turn of a discovery run, whatever it extracts, leaves every row
\* that was in the people table as it was: status, email, linkedin, title,
\* context, priority_score and scored_at of a prospect whose identifying key
\* is extracted again are unchanged, and the rows the turn adds carry keys
\* that were not in the table.
C39_Step ==
    DiscoveryTurn =>
        /\ Len(people') >= Len(people)
        /\ \A i \in DOMAIN people : Untouched(people[i], people'[i])
        /\ \A j \in DOMAIN people' \ DOMAIN people :
              \A i \in DOMAIN people : people'[j].key # people[i].key
PastExtraction ==
    /\ DiscoveryTurn
    /\ ~proc.dry_run
    /\ proc'.results[Len(proc'.results)].error = ""

\* The source of the turn carries the time of the run and the number of
\* people extracted, and nothing else of the sources table changed.
Stamped ==
    LET source == proc.queue[Len(proc'.results)]
        res == proc'.results[Len(proc'.results)]
    IN  /\ DOMAIN sources' = DOMAIN sources
        /\ \A i \in DOMAIN sources :
              IF sources[i].id = source.id
              THEN /\ sources'[i].last_checked_at = Some(now)
                   /\ sources'[i].last_people_count = res.extracted
              ELSE sources'[i] = sources[i]

\* The extracted people of the turn that were neither inserted nor counted
\* as skipped duplicates.
NotStored ==
    LET res == proc'.results[Len(proc'.results)]
    IN  res.extracted - (res.inserted + res.skipped)

\* C40: in a turn of a run that is not a preview and got past extraction,
\* inserted + skipped <= extracted, and the people missing from the sum are
\* exactly the failures of the turn other than a failure of the source
\* update itself: the sum equals extracted iff no insert failed with an
\* error that is not a duplicate. Unless the source update itself failed
\* (a warning, the table is as before), the source is stamped with now and
\* with the number of extracted people, however many inserts failed.
C40_Step ==
    PastExtraction =>
        LET failures == proc'.faults - proc.faults
        IN  /\ NotStored >= 0
            /\ NotStored \in {failures, failures - 1}
            /\ NotStored = failures => Stamped
            /\ NotStored = failures - 1 => sources' = sources
C40_StampedWhateverInserts == [][C40_Step]_vars

\* A run that is not a preview extracted two people from a source never
\* checked, stored one of them while the insert of the other failed, and
\* the source carries the time of the run and the count 2.
C40_Witness ==
    /\ proc.agent = "discovery"
    /\ ~proc.dry_run
    /\ Len(proc.results) = 1
    /\ proc.results[1].error = ""
    /\ proc.results[1].extracted = 2
    /\ proc.results[1].inserted = 1
    /\ proc.results[1].skipped = 0
    /\ proc.faults = 1
    /\ proc.queue[1].last_checked_at = None
    /\ sources[proc.queue[1].id].last_checked_at = Some(now)
    /\ sources[proc.queue[1].id].last_people_count = 2
====
